---- MODULE Spec2Model ----
(***************************************************************************)
(* Model of two HAL drivers of the repository:                             *)
(*   - the epoch-translating RTC driver (TARGET_M2354/rtc_api.c),          *)
(*   - the C_CAN driver (TARGET_LPC15XX/can_api.c): bit-timing solver,     *)
(*     message objects, interrupt dispatcher.                              *)
(*                                                                         *)
(* Specification Spec drives the RTC driver through its public entry       *)
(* points, together with the hardware clock and a system reset.            *)
(* SpecHour runs rtc_read on date-time registers at every hour of the      *)
(* 24-hour and the 12-hour mode; SpecStack runs rtc_init, rtc_read and     *)
(* rtc_write one call frame at a time (SpecStackFair adds progress).       *)
(* Specification SpecSpeed runs can_speed, one iteration of its while      *)
(* loop per step, on inputs drawn from bounded sets.                       *)
(* The CAN driver is driven by one specification per concern, all over the *)
(* same state: SpecCtl (bit timing and mode), SpecPool (message objects    *)
(* filled by can_filter), SpecCan (transmission), SpecRx (reception),      *)
(* SpecFrame (one frame through filter, reception and can_read), SpecReset *)
(* (initialisation and reset of a controller in use), SpecIrq (the         *)
(* interrupt entry points and the dispatcher, with the controller's status *)
(* changes), SpecLine (the same with every interrupt kind), SpecLen (every *)
(* length code through can_write and can_read), SpecLowRate (can_speed for *)
(* very low bit rates) and SpecHs (the calls taken one register access at  *)
(* a time, with the controller completing each transfer on its own and     *)
(* can_read run from the interrupt handler; SpecIsrWrite has the handler   *)
(* call can_write or can_filter instead).  SpecLowRateFair and SpecHsFair  *)
(* add the progress of the processor and of the controller.                *)
(*                                                                         *)
(* Numbers.  time_t / int64_t values are kept as four 16-bit limbs, least  *)
(* significant first, so that the 32-bit spare register really truncates a *)
(* 64-bit value; uint32_t values are two limbs.  The model takes time_t to *)
(* be 64 bits wide, as rtc_read_impl / rtc_write_impl declare their        *)
(* argument and result (int64_t).                                          *)
(***************************************************************************)
EXTENDS Integers, Sequences, FiniteSets, TLC

VARIABLES
    \* ---- rtc_api.c: driver statics
    t_hwrtc_origin_inited,  \* static bool t_hwrtc_origin_inited
    t_hwrtc_origin,         \* static time_t t_hwrtc_origin
    t_write,                \* static time_t t_write
    \* ---- RTC hardware
    CLK_RTCCKEN,            \* peripheral clock gate of RTC_MODULE
    RTC_INIT_ACTIVE,        \* RTC->INIT & RTC_INIT_ACTIVE_Msk
    RTC_SPRRWEN,            \* spare register access enabled
    RTC_SPR0,               \* RTC->SPR[0], 32 bits
    hwrtc,                  \* date-time registers, as S_RTC_TIME_DATA_T
    \* ---- observation of the RTC calls
    lastOp,                 \* the step just taken
    lastArg,                \* argument of the last rtc_write call
    ret,                    \* value returned by the last call
    obs,                    \* bookkeeping about earlier calls (see ObsInit)
    \* ---- can_api.c: can_speed, its locals and program counter
    sp,
    \* ---- can_api.c: driver statics
    can_irq_id,             \* static uint32_t can_irq_id
    irq_handler,            \* static can_irq_handler irq_handler
    enabled_irqs,           \* static uint32_t enabled_irqs
    \* ---- C_CAN controller
    LPC_C_CAN0,             \* registers, interface registers IF1 / IF2 included
    msgram,                 \* message RAM: message objects 1..32
    NVIC,                   \* vector and enable bit of C_CAN0_IRQn
    \* ---- observation of the CAN calls
    canObs

rtcVars == <<t_hwrtc_origin_inited, t_hwrtc_origin, t_write, CLK_RTCCKEN,
             RTC_INIT_ACTIVE, RTC_SPRRWEN, RTC_SPR0, hwrtc>>
obsVars == <<lastOp, lastArg, ret, obs>>
canVars == <<can_irq_id, irq_handler, enabled_irqs, LPC_C_CAN0, msgram, NVIC,
             canObs>>
vars == <<rtcVars, obsVars, sp, canVars>>

----------------------------------------------------------------------------
(* Fixed-width integers as 16-bit limbs.                                   *)

LimbBase == 2^16

Word64 == [1..4 -> 0..(LimbBase - 1)]

\* a natural number below 2^31 as a 64-bit value
W64(n) == <<n % LimbBase, (n \div LimbBase) % LimbBase, 0, 0>>

Zero64 == W64(0)

\* a + b modulo 2^64
Add64(a, b) ==
    LET s1 == a[1] + b[1]
        s2 == a[2] + b[2] + (s1 \div LimbBase)
        s3 == a[3] + b[3] + (s2 \div LimbBase)
        s4 == a[4] + b[4] + (s3 \div LimbBase)
    IN  <<s1 % LimbBase, s2 % LimbBase, s3 % LimbBase, s4 % LimbBase>>

\* a - b modulo 2^64
Sub64(a, b) ==
    LET d1 == a[1] - b[1]
        d2 == a[2] - b[2] + (d1 \div LimbBase)
        d3 == a[3] - b[3] + (d2 \div LimbBase)
        d4 == a[4] - b[4] + (d3 \div LimbBase)
    IN  <<d1 % LimbBase, d2 % LimbBase, d3 % LimbBase, d4 % LimbBase>>

\* signed comparison a <= b of two int64_t values
Leq64(a, b) ==
    LET sa == IF a[4] >= LimbBase \div 2 THEN a[4] - LimbBase ELSE a[4]
        sb == IF b[4] >= LimbBase \div 2 THEN b[4] - LimbBase ELSE b[4]
    IN  \/ sa < sb
        \/ sa = sb /\ a[3] < b[3]
        \/ sa = sb /\ a[3] = b[3] /\ a[2] < b[2]
        \/ sa = sb /\ a[3] = b[3] /\ a[2] = b[2] /\ a[1] <= b[1]

\* (uint32_t) of a 64-bit value: what a store to a 32-bit register keeps
Trunc32(a) == <<a[1], a[2]>>

\* a uint32_t value widened to 64 bits
ZExt32(w) == <<w[1], w[2], 0, 0>>

FitsIn32(a) == a[3] = 0 /\ a[4] = 0

----------------------------------------------------------------------------
(* RTC: constants of rtc_api.c                                             *)

NU_TM_YEAR0 == 1900

RTC_CLOCK_12 == 0
RTC_CLOCK_24 == 1
RTC_PM == 2

\* RTC H/W origin time: 00:00:00 UTC, Saturday, 1 January 2000
DATETIME_HWRTC_ORIGIN ==
    [u32Year |-> 2000, u32Month |-> 1, u32Day |-> 1,
     u32Hour |-> 0, u32Minute |-> 0, u32Second |-> 0,
     u32TimeScale |-> RTC_CLOCK_24, u32AmPm |-> 0]

----------------------------------------------------------------------------
(* Calendar-to-epoch conversion (mbed_mktime: _rtc_maketime with           *)
(* RTC_FULL_LEAP_YEAR_SUPPORT).  Years are years since 1900.               *)

IsLeapYear(tm_year) ==
    LET y == tm_year + NU_TM_YEAR0
    IN  (y % 4 = 0) /\ ((y % 100 # 0) \/ (y % 400 = 0))

SecondsBeforeMonth(leap, tm_mon) ==
    LET days == IF leap
                THEN <<0, 31, 60, 91, 121, 152, 182, 213, 244, 274, 305, 335>>
                ELSE <<0, 31, 59, 90, 120, 151, 181, 212, 243, 273, 304, 334>>
    IN  days[tm_mon + 1] * 86400

\* [ok, seconds]: ok is FALSE when the date is rejected (year outside
\* 1970..2106); seconds is the POSIX time of the calendar value.
rtc_maketime(tm) ==
    IF tm.tm_year < 70 \/ tm.tm_year > 206
    THEN [ok |-> FALSE, seconds |-> 0]
    ELSE LET inYear == tm.tm_sec + tm.tm_min * 60 + tm.tm_hour * 3600
                       + (tm.tm_mday - 1) * 86400
                       + SecondsBeforeMonth(IsLeapYear(tm.tm_year), tm.tm_mon)
             leapDays == ((tm.tm_year - 1) \div 4) - (70 \div 4)
                         - (IF tm.tm_year > 200 THEN 1 ELSE 0)
             years == IF tm.tm_year > 70
                      THEN ((tm.tm_year - 70) * 365 + leapDays) * 86400
                      ELSE 0
         IN  [ok |-> TRUE, seconds |-> inYear + years]

----------------------------------------------------------------------------
(* RTC: the driver, as functions from machine state to machine state.      *)
(* A machine state s is a record of the driver statics and the hardware;   *)
(* every function returns [st |-> state after, ret |-> value returned].    *)

St == [inited |-> t_hwrtc_origin_inited, origin |-> t_hwrtc_origin,
       twrite |-> t_write, clk |-> CLK_RTCCKEN, active |-> RTC_INIT_ACTIVE,
       sprrwen |-> RTC_SPRRWEN, spr0 |-> RTC_SPR0, hw |-> hwrtc]

\* Convert date time from H/W RTC to struct TM
rtc_convert_datetime_hwrtc_to_tm(dt) ==
    [tm_year |-> dt.u32Year - NU_TM_YEAR0,
     tm_mon  |-> dt.u32Month - 1,
     tm_mday |-> dt.u32Day,
     tm_hour |-> IF dt.u32TimeScale = RTC_CLOCK_12 /\ dt.u32AmPm = RTC_PM
                 THEN dt.u32Hour + 12
                 ELSE dt.u32Hour,
     tm_min  |-> dt.u32Minute,
     tm_sec  |-> dt.u32Second]

\* BSP: RTC_Open(NULL) starts the RTC; it returns with the active flag set
RTC_Open(s) == [s EXCEPT !.active = TRUE]

\* BSP: RTC_SetDateAndTime / RTC_GetDateAndTime on the date-time registers
RTC_SetDateAndTime(s, dt) == [s EXCEPT !.hw = dt]

RTC_GetDateAndTime(s) == s.hw

\* BSP: RTC_EnableSpareAccess, RTC_WRITE_SPARE_REGISTER, RTC_READ_SPARE_REGISTER
RTC_EnableSpareAccess(s) == [s EXCEPT !.sprrwen = TRUE]

RTC_WRITE_SPARE_REGISTER(s, v) == [s EXCEPT !.spr0 = Trunc32(v)]

RTC_READ_SPARE_REGISTER(s) == ZExt32(s.spr0)

rtc_free_impl(s) == [st |-> [s EXCEPT !.clk = FALSE], ret |-> Zero64]

\* variant: a purely observational check, the clock gate left as it is
rtc_isenabled_impl_NoClock(s) ==
    [st  |-> s,
     ret |-> IF s.active THEN W64(1) ELSE Zero64]

rtc_isenabled_impl(s) ==
    [st  |-> [s EXCEPT !.clk = TRUE],
     ret |-> IF s.active THEN W64(1) ELSE Zero64]

RECURSIVE rtc_init_impl(_)
RECURSIVE rtc_write_impl(_, _)

\* variant: no early return when the RTC is already active
rtc_init_impl_Always(s) ==
    rtc_write_impl(RTC_Open(rtc_isenabled_impl(s).st), Zero64)

rtc_init_impl(s) ==
    LET e == rtc_isenabled_impl(s)
    IN  IF e.ret # Zero64
        THEN [st |-> e.st, ret |-> Zero64]
        ELSE rtc_write_impl(RTC_Open(e.st), Zero64)

rtc_write_impl(s, t) ==
    LET e  == rtc_isenabled_impl(s)
        s1 == IF e.ret = Zero64 THEN rtc_init_impl(e.st).st ELSE e.st
        s2 == [s1 EXCEPT !.twrite = t]
        s3 == RTC_WRITE_SPARE_REGISTER(RTC_EnableSpareAccess(s2), s2.twrite)
        s4 == RTC_SetDateAndTime(s3, DATETIME_HWRTC_ORIGIN)
    IN  [st |-> s4, ret |-> Zero64]

\* variant: the elapsed time subtracted instead of added
rtc_read_impl_Minus(s) ==
    LET e  == rtc_isenabled_impl(s)
        s1 == IF e.ret = Zero64 THEN rtc_init_impl(e.st).st ELSE e.st
        o  == rtc_maketime(rtc_convert_datetime_hwrtc_to_tm(DATETIME_HWRTC_ORIGIN))
        s2 == IF s1.inited THEN s1
              ELSE [RTC_EnableSpareAccess(s1) EXCEPT
                        !.inited = TRUE,
                        !.origin = W64(o.seconds),
                        !.twrite = RTC_READ_SPARE_REGISTER(s1)]
        el == rtc_maketime(rtc_convert_datetime_hwrtc_to_tm(RTC_GetDateAndTime(s2)))
    IN  IF ~el.ok THEN [st |-> s2, ret |-> Zero64]
        ELSE [st  |-> s2,
              ret |-> Sub64(s2.twrite, Sub64(W64(el.seconds), s2.origin))]

\* variant: the result of the conversion of the present date-time is not
\* checked
rtc_read_impl_Unchecked(s) ==
    LET e  == rtc_isenabled_impl(s)
        s1 == IF e.ret = Zero64 THEN rtc_init_impl(e.st).st ELSE e.st
        o  == rtc_maketime(rtc_convert_datetime_hwrtc_to_tm(DATETIME_HWRTC_ORIGIN))
        s2 == IF s1.inited THEN s1
              ELSE [RTC_EnableSpareAccess(s1) EXCEPT
                        !.inited = TRUE,
                        !.origin = W64(o.seconds),
                        !.twrite = RTC_READ_SPARE_REGISTER(s1)]
        el == rtc_maketime(rtc_convert_datetime_hwrtc_to_tm(RTC_GetDateAndTime(s2)))
    IN  [st  |-> s2,
         ret |-> Add64(s2.twrite, Sub64(W64(el.seconds), s2.origin))]

rtc_read_impl(s) ==
    LET e  == rtc_isenabled_impl(s)
        s1 == IF e.ret = Zero64 THEN rtc_init_impl(e.st).st ELSE e.st
        o  == rtc_maketime(rtc_convert_datetime_hwrtc_to_tm(DATETIME_HWRTC_ORIGIN))
        \* first call: cache the origin, reload t_write from the spare register
        s2 == IF s1.inited THEN s1
              ELSE IF ~o.ok THEN [s1 EXCEPT !.inited = TRUE]
              ELSE [RTC_EnableSpareAccess(s1) EXCEPT
                        !.inited = TRUE,
                        !.origin = W64(o.seconds),
                        !.twrite = RTC_READ_SPARE_REGISTER(s1)]
        el == rtc_maketime(rtc_convert_datetime_hwrtc_to_tm(RTC_GetDateAndTime(s2)))
    IN  IF ~s1.inited /\ ~o.ok THEN [st |-> s2, ret |-> Zero64]
        ELSE IF ~el.ok THEN [st |-> s2, ret |-> Zero64]
        ELSE [st  |-> s2,
              ret |-> Add64(s2.twrite, Sub64(W64(el.seconds), s2.origin))]

\* the boundary entries (__NONSECURE_ENTRY)
rtc_init_s(s) == rtc_init_impl(s)

rtc_free_s(s) == rtc_free_impl(s)

rtc_isenabled_s(s) == rtc_isenabled_impl(s)

rtc_read_s(s) == rtc_read_impl(s)

\* variant: the argument marshalled as a 32-bit value
rtc_write_s_Narrow(s, t) == rtc_write_impl(s, ZExt32(Trunc32(t)))

rtc_write_s(s, t) == rtc_write_impl(s, t)

\* the public entries
rtc_init(s) == rtc_init_s(s)

rtc_free(s) == rtc_free_s(s)

rtc_isenabled(s) == rtc_isenabled_s(s)

rtc_read(s) == rtc_read_s(s)

rtc_write(s, t) == rtc_write_s(s, t)

----------------------------------------------------------------------------
(* RTC: the environment.  The hardware clock counts calendar seconds       *)
(* (2000..2099, every fourth year a leap year) once the RTC is active.     *)

\* bounds of the model
MaxAdvance == 2

\* amounts the hardware clock advances by in one step: a second, a day less
\* a second, 59 days (1 January -> 29 February 2000) and a leap year
AdvanceSteps == {1, 86399, 59 * 86400, 366 * 86400}

\* values given to rtc_write: 0, 5, 2^32 - 1, 2^32 + 5
TimeInputs == {W64(0), W64(5), <<LimbBase - 1, LimbBase - 1, 0, 0>>,
               <<5, 0, 1, 0>>}

\* year values outside the range the conversion accepts (1970..2106); the
\* year register holds two BCD digits of four bits each, offset by 2000
MalformedYears == {2165}

HwDaysInMonth(y, m) ==
    IF m = 2 THEN (IF y % 4 = 0 THEN 29 ELSE 28)
    ELSE IF m \in {4, 6, 9, 11} THEN 30 ELSE 31

RECURSIVE HwAddDays(_, _)
HwAddDays(dt, n) ==
    LET dim == HwDaysInMonth(dt.u32Year, dt.u32Month)
    IN  IF dt.u32Day + n <= dim THEN [dt EXCEPT !.u32Day = dt.u32Day + n]
        ELSE HwAddDays([dt EXCEPT
                           !.u32Day = 1,
                           !.u32Month = IF dt.u32Month = 12 THEN 1 ELSE dt.u32Month + 1,
                           !.u32Year = IF dt.u32Month = 12 THEN dt.u32Year + 1 ELSE dt.u32Year],
                       n - (dim - dt.u32Day + 1))

HwAddSeconds(dt, n) ==
    LET total == dt.u32Hour * 3600 + dt.u32Minute * 60 + dt.u32Second + n
        inDay == total % 86400
    IN  HwAddDays([dt EXCEPT !.u32Hour = inDay \div 3600,
                             !.u32Minute = (inDay % 3600) \div 60,
                             !.u32Second = inDay % 60],
                  total \div 86400)

HwDateAccepted(dt) == rtc_maketime(rtc_convert_datetime_hwrtc_to_tm(dt)).ok

----------------------------------------------------------------------------
(* RTC: observation.  obs records what the properties need to know about   *)
(* earlier steps:                                                          *)
(*   wr            value of the last write (rtc_write's argument, or the 0 *)
(*                 written by an initialisation)                           *)
(*   since         seconds the hardware clock advanced since the date-time *)
(*                 registers were last set                                 *)
(*   advances      number of HwAdvance steps since then                    *)
(*   prevRead      the last successful rtc_read with no write and no reset *)
(*                 after it: [some, val, first], first telling that it was *)
(*                 the first read after a reset                            *)
(*   earlierRead   prevRead as it was before the last call, when that call *)
(*                 was an rtc_read                                         *)
(*   afterWrite    the step before the last one was rtc_write(t): [some,t] *)
(*   wasCached     t_hwrtc_origin_inited before the last call              *)
(*   wasActive     the active flag before the last call                    *)
(*   resetPending  a reset happened; no rtc_init, rtc_write, rtc_read since*)
(*   firstAfterReset  the last call was the first rtc_read after a reset,  *)
(*                 with no rtc_init or rtc_write in between                *)
(*   readOk        the last rtc_read found a date-time the conversion      *)
(*                 accepts                                                 *)
(*   failedRead    an rtc_read failed since the last write                 *)
(*   afterFree     the step before the last one was rtc_free               *)
(*   goodYear      the year register before it was corrupted               *)

None64 == [some |-> FALSE, val |-> Zero64]
Some64(v) == [some |-> TRUE, val |-> v]

NoRead == [some |-> FALSE, val |-> Zero64, first |-> FALSE]

ObsInit == [wr |-> Zero64, since |-> 0, advances |-> 0, prevRead |-> NoRead,
            earlierRead |-> NoRead,
            afterWrite |-> None64, wasCached |-> FALSE, wasActive |-> FALSE,
            resetPending |-> FALSE, firstAfterReset |-> FALSE,
            readOk |-> FALSE, failedRead |-> FALSE, afterFree |-> FALSE,
            goodYear |-> DATETIME_HWRTC_ORIGIN.u32Year]

Commit(s) ==
    /\ t_hwrtc_origin_inited' = s.inited
    /\ t_hwrtc_origin' = s.origin
    /\ t_write' = s.twrite
    /\ CLK_RTCCKEN' = s.clk
    /\ RTC_INIT_ACTIVE' = s.active
    /\ RTC_SPRRWEN' = s.sprrwen
    /\ RTC_SPR0' = s.spr0
    /\ hwrtc' = s.hw

\* bookkeeping common to every call: o is obs with the call's own changes
Observe(op, arg, r, o) ==
    /\ lastOp' = op
    /\ lastArg' = arg
    /\ ret' = r
    /\ obs' = [o EXCEPT !.afterWrite = IF lastOp = "rtc_write" THEN Some64(lastArg)
                                       ELSE None64,
                        !.afterFree = (lastOp = "rtc_free"),
                        !.earlierRead = IF op = "rtc_read" /\ RTC_INIT_ACTIVE
                                        THEN obs.prevRead
                                        ELSE NoRead,
                        !.wasCached = t_hwrtc_origin_inited,
                        !.wasActive = RTC_INIT_ACTIVE]
    /\ UNCHANGED <<sp, canVars>>

\* an initialisation inside a call writes 0 and sets the date-time registers
ObsAfterInit(o) ==
    IF RTC_INIT_ACTIVE THEN o
    ELSE [o EXCEPT !.wr = Zero64, !.since = 0, !.advances = 0,
                   !.prevRead = NoRead, !.failedRead = FALSE]

RtcInit ==
    /\ t_hwrtc_origin_inited = FALSE
    /\ t_hwrtc_origin = Zero64
    /\ t_write = Zero64
    /\ CLK_RTCCKEN = FALSE
    /\ RTC_INIT_ACTIVE = FALSE
    /\ RTC_SPRRWEN = FALSE
    /\ RTC_SPR0 = Trunc32(Zero64)
    /\ hwrtc = DATETIME_HWRTC_ORIGIN
    /\ lastOp = "boot"
    /\ lastArg = Zero64
    /\ ret = Zero64
    /\ obs = ObsInit

Call_rtc_init ==
    LET r == rtc_init(St)
    IN  /\ Commit(r.st)
        /\ Observe("rtc_init", Zero64, Zero64,
                   [ObsAfterInit(obs) EXCEPT !.resetPending = FALSE,
                                             !.firstAfterReset = FALSE])

Call_rtc_free ==
    LET r == rtc_free(St)
    IN  /\ Commit(r.st)
        /\ Observe("rtc_free", Zero64, Zero64, [obs EXCEPT !.firstAfterReset = FALSE])

Call_rtc_isenabled ==
    LET r == rtc_isenabled(St)
    IN  /\ Commit(r.st)
        /\ Observe("rtc_isenabled", Zero64, r.ret, [obs EXCEPT !.firstAfterReset = FALSE])

Call_rtc_read ==
    LET r  == rtc_read(St)
        ok == HwDateAccepted(r.st.hw)
        o  == ObsAfterInit(obs)
    IN  /\ Commit(r.st)
        /\ Observe("rtc_read", Zero64, r.ret,
                   [o EXCEPT !.resetPending = FALSE,
                             !.firstAfterReset = obs.resetPending,
                             !.readOk = ok,
                             !.failedRead = (o.failedRead \/ ~ok),
                             !.prevRead =
                                 IF ok THEN [some |-> TRUE, val |-> r.ret,
                                             first |-> obs.resetPending]
                                 ELSE o.prevRead])

Call_rtc_write(t) ==
    LET r == rtc_write(St, t)
    IN  /\ Commit(r.st)
        /\ Observe("rtc_write", t, Zero64,
                   [obs EXCEPT !.wr = t, !.since = 0, !.advances = 0,
                               !.prevRead = NoRead, !.failedRead = FALSE,
                               !.resetPending = FALSE,
                               !.firstAfterReset = FALSE])

\* a reset of the core: the driver's variables and the clock gate return to
\* their initial values; the RTC domain (active flag, spare register,
\* date-time registers) keeps its state
SystemReset ==
    /\ t_hwrtc_origin_inited' = FALSE
    /\ t_hwrtc_origin' = Zero64
    /\ t_write' = Zero64
    /\ CLK_RTCCKEN' = FALSE
    /\ UNCHANGED <<RTC_INIT_ACTIVE, RTC_SPRRWEN, RTC_SPR0, hwrtc>>
    /\ Observe("reset", Zero64, Zero64,
               [obs EXCEPT !.resetPending = TRUE, !.firstAfterReset = FALSE,
                           !.prevRead = NoRead])

\* the hardware clock advances by n seconds
HwAdvance(n) ==
    /\ RTC_INIT_ACTIVE
    /\ hwrtc.u32Year \notin MalformedYears
    /\ obs.advances < MaxAdvance
    /\ hwrtc' = HwAddSeconds(hwrtc, n)
    /\ UNCHANGED <<t_hwrtc_origin_inited, t_hwrtc_origin, t_write, CLK_RTCCKEN,
                   RTC_INIT_ACTIVE, RTC_SPRRWEN, RTC_SPR0>>
    /\ Observe("tick", Zero64, Zero64,
               [obs EXCEPT !.since = obs.since + n, !.advances = obs.advances + 1,
                           !.firstAfterReset = FALSE])

\* the date-time registers hold a malformed value (year out of range) ...
HwGlitch(y) ==
    /\ RTC_INIT_ACTIVE
    /\ hwrtc.u32Year \notin MalformedYears
    /\ hwrtc' = [hwrtc EXCEPT !.u32Year = y]
    /\ UNCHANGED <<t_hwrtc_origin_inited, t_hwrtc_origin, t_write, CLK_RTCCKEN,
                   RTC_INIT_ACTIVE, RTC_SPRRWEN, RTC_SPR0>>
    /\ Observe("glitch", Zero64, Zero64,
               [obs EXCEPT !.goodYear = hwrtc.u32Year, !.firstAfterReset = FALSE])

\* ... and hold the well-formed value again
HwRestore ==
    /\ hwrtc.u32Year \in MalformedYears
    /\ hwrtc' = [hwrtc EXCEPT !.u32Year = obs.goodYear]
    /\ UNCHANGED <<t_hwrtc_origin_inited, t_hwrtc_origin, t_write, CLK_RTCCKEN,
                   RTC_INIT_ACTIVE, RTC_SPRRWEN, RTC_SPR0>>
    /\ Observe("restore", Zero64, Zero64, [obs EXCEPT !.firstAfterReset = FALSE])

Next ==
    \/ Call_rtc_init
    \/ Call_rtc_free
    \/ Call_rtc_isenabled
    \/ Call_rtc_read
    \/ \E t \in TimeInputs : Call_rtc_write(t)
    \/ SystemReset
    \/ \E n \in AdvanceSteps : HwAdvance(n)
    \/ \E y \in MalformedYears : HwGlitch(y)
    \/ HwRestore

----------------------------------------------------------------------------
(* C_CAN controller: its state when the driver has not touched it yet.     *)
(* Registers are 16 bits wide.  A message object and an interface register *)
(* set hold the same fields; the interface adds the command mask and the   *)
(* command request registers.                                              *)

\* a message object of the message RAM with every field zero
ZeroObject ==
    [ARB1 |-> 0, ARB2 |-> 0, MSK1 |-> 0, MSK2 |-> 0, MCTRL |-> 0,
     DA1 |-> 0, DA2 |-> 0, DB1 |-> 0, DB2 |-> 0]

\* an interface register set after a reset of the controller
ResetInterface ==
    [ARB1 |-> 0, ARB2 |-> 0, MSK1 |-> 65535, MSK2 |-> 65535, MCTRL |-> 0,
     DA1 |-> 0, DA2 |-> 0, DB1 |-> 0, DB2 |-> 0, CMDMSK |-> 0, CMDREQ |-> 1]

\* the registers after a reset of the controller: initialisation mode, no
\* status, the default bit timing
ResetRegisters ==
    [CANCNTL |-> 1, CANSTAT |-> 0, CANBT |-> 8961, CANINT |-> 0,
     CANTEST |-> 0, CANBRPE |-> 0, CANCLKDIV |-> 1,
     IF1 |-> ResetInterface, IF2 |-> ResetInterface]

\* what the caller's CAN_Message holds when it is passed to can_read
CallerMessage ==
    [id |-> 1365, data |-> <<170, 170, 170, 170, 170, 170, 170, 170>>, len |-> 5,
     format |-> "CANExtended", type |-> "CANRemote"]

CanObsInit ==
    [op |-> "boot", ret |-> 0, arg |-> <<>>, inited |-> FALSE,
     hs |-> <<>>, calls |-> <<>>, rxmsg |-> CallerMessage,
     freq |-> [called |-> FALSE], delivered |-> [some |-> FALSE],
     written |-> CallerMessage, got |-> [some |-> FALSE],
     named |-> 0, autos |-> 0, writes |-> 0, reads |-> 0, receives |-> 0,
     freed |-> FALSE,
     fg |-> [fn |-> "none", todo |-> <<>>, isr |-> 0, calls |-> 0, slot |-> 0,
             obj |-> ZeroObject]]

CanBoot ==
    /\ can_irq_id = 0
    /\ irq_handler = "NULL"
    /\ enabled_irqs = 0
    /\ LPC_C_CAN0 = ResetRegisters
    /\ msgram = [k \in 1..32 |-> ZeroObject]
    /\ NVIC = [vector |-> "none", enabled |-> FALSE]
    /\ canObs = CanObsInit

SpeedIdle == [pc |-> "idle"]

Init == RtcInit /\ sp = SpeedIdle /\ CanBoot

Spec == Init /\ [][Next]_vars

----------------------------------------------------------------------------
(* RTC: the hour of the calendar value.  rtc_read converts whatever the    *)
(* date-time registers hold; the RTC domain keeps its state across a reset *)
(* of the core, so the registers may be in 12-hour mode (hours 1..12 with  *)
(* AM or PM) when the driver first reads them.                             *)

\* BSP rtc.h
RTC_AM == 1

\* the date-time registers at the first read: the origin day at every hour
\* of either mode, at the start and at the end of the hour
HourInputs ==
    {[DATETIME_HWRTC_ORIGIN EXCEPT !.u32Hour = h, !.u32Minute = m,
                                   !.u32Second = m]
        : h \in 0..23, m \in {0, 59}}
    \cup
    {[DATETIME_HWRTC_ORIGIN EXCEPT !.u32TimeScale = RTC_CLOCK_12,
                                   !.u32AmPm = ap, !.u32Hour = h,
                                   !.u32Minute = m, !.u32Second = m]
        : h \in 1..12, ap \in {RTC_AM, RTC_PM}, m \in {0, 59}}

\* obs with the local datetime_tm of the last rtc_read added to it
InitHour ==
    /\ t_hwrtc_origin_inited = FALSE
    /\ t_hwrtc_origin = Zero64
    /\ t_write = Zero64
    /\ CLK_RTCCKEN = FALSE
    /\ RTC_INIT_ACTIVE = TRUE
    /\ RTC_SPRRWEN = FALSE
    /\ RTC_SPR0 = Trunc32(Zero64)
    /\ hwrtc \in HourInputs
    /\ lastOp = "boot"
    /\ lastArg = Zero64
    /\ ret = Zero64
    /\ obs = ObsInit @@ [tm |-> rtc_convert_datetime_hwrtc_to_tm(DATETIME_HWRTC_ORIGIN)]
    /\ sp = SpeedIdle
    /\ CanBoot

\* rtc_read, its local datetime_tm kept: the conversion of the date-time
\* registers as the call found them
Call_rtc_read_tm ==
    LET r  == rtc_read(St)
        ok == HwDateAccepted(r.st.hw)
    IN  /\ Commit(r.st)
        /\ Observe("rtc_read", Zero64, r.ret,
                   [obs EXCEPT !.readOk = ok,
                               !.tm = rtc_convert_datetime_hwrtc_to_tm(
                                          RTC_GetDateAndTime(r.st))])

NextHour == Call_rtc_read_tm \/ SystemReset

SpecHour == InitHour /\ [][NextHour]_vars

----------------------------------------------------------------------------
(* RTC: the calls between rtc_init_impl, rtc_write_impl and rtc_read_impl, *)
(* one call frame at a time.  obs.stack is the call stack, innermost frame *)
(* last; a frame is [fn, pc, t]:                                           *)
(*   pc = "check"  at the call of rtc_isenabled_impl                       *)
(*   pc = "open"   rtc_init_impl at RTC_Open(NULL)                         *)
(*   pc = "write"  rtc_init_impl at rtc_write_impl(0)                      *)
(*   pc = "body"   rtc_write_impl / rtc_read_impl after the check          *)
(*   pc = "ret"    at the return                                           *)
(* RTC_Open asks the RTC to start and gives up waiting after a time-out:   *)
(* it returns with the active flag set or still clear (its result is not   *)
(* looked at).  The flag is the hardware's: it may get set any time after  *)
(* the request.  The stack holds MaxStack frames; a call with the stack    *)
(* full ends in the stack-overflow fault and nothing runs after it.        *)

MaxStack == 6

\* values given to rtc_write
StackTimes == {W64(0), W64(5)}

Frame(fn, pc, t) == [fn |-> fn, pc |-> pc, t |-> t]

StackObsInit ==
    ObsInit @@ [stack |-> <<>>, opened |-> FALSE, fault |-> FALSE, depth |-> 0]

InitStack ==
    /\ t_hwrtc_origin_inited = FALSE
    /\ t_hwrtc_origin = Zero64
    /\ t_write = Zero64
    /\ CLK_RTCCKEN = FALSE
    /\ RTC_INIT_ACTIVE \in BOOLEAN
    /\ RTC_SPRRWEN = FALSE
    /\ RTC_SPR0 = Trunc32(Zero64)
    /\ hwrtc = DATETIME_HWRTC_ORIGIN
    /\ lastOp = "boot"
    /\ lastArg = Zero64
    /\ ret = Zero64
    /\ obs = StackObsInit
    /\ sp = SpeedIdle
    /\ CanBoot

Top == obs.stack[Len(obs.stack)]

Below == SubSeq(obs.stack, 1, Len(obs.stack) - 1)

\* the stack after the innermost frame moved to pc
Goto(pc) == Below \o <<[Top EXCEPT !.pc = pc]>>

\* the stack after the innermost frame moved to pc and called fn(t)
CallFrom(pc, fn, t) == Goto(pc) \o <<Frame(fn, "check", t)>>

StackKeep(stack) ==
    /\ obs' = [obs EXCEPT !.stack = stack,
                          !.depth = IF Len(stack) > obs.depth THEN Len(stack)
                                    ELSE obs.depth]
    /\ UNCHANGED <<lastOp, lastArg, ret, sp, canVars>>

\* a call that finds the stack full
Overflows == Len(obs.stack) >= MaxStack

StackFault ==
    /\ obs' = [obs EXCEPT !.fault = TRUE]
    /\ lastOp' = "StackOverflow"
    /\ UNCHANGED <<lastArg, ret, sp, canVars>>

\* the application calls rtc_init(), rtc_read() or rtc_write(t)
StackCall(fn, t) ==
    /\ obs.stack = <<>> /\ ~obs.fault
    /\ obs' = [obs EXCEPT !.stack = <<Frame(fn, "check", t)>>, !.depth = 1]
    /\ lastOp' = fn
    /\ lastArg' = t
    /\ UNCHANGED <<rtcVars, ret, sp, canVars>>

\* if (rtc_isenabled_impl()) return;  in rtc_init_impl, and
\* if (! rtc_isenabled_impl()) rtc_init_impl();  in the other two
StackCheck ==
    \E e \in {rtc_isenabled_impl(St)} :
        /\ Top.pc = "check"
        /\ Commit(e.st)
        /\ IF Top.fn = "rtc_init_impl"
           THEN StackKeep(Goto(IF e.ret # Zero64 THEN "ret" ELSE "open"))
           ELSE IF e.ret # Zero64 THEN StackKeep(Goto("body"))
                ELSE IF Overflows THEN StackFault
                     ELSE StackKeep(CallFrom("body", "rtc_init_impl", Zero64))

\* RTC_Open(NULL);
StackOpen ==
    /\ Top.pc = "open"
    /\ \E nowActive \in {TRUE, RTC_INIT_ACTIVE} :
          RTC_INIT_ACTIVE' = nowActive
    /\ obs' = [obs EXCEPT !.stack = Goto("write"), !.opened = TRUE]
    /\ UNCHANGED <<t_hwrtc_origin_inited, t_hwrtc_origin, t_write, CLK_RTCCKEN,
                   RTC_SPRRWEN, RTC_SPR0, hwrtc, lastOp, lastArg, ret, sp,
                   canVars>>

\* rtc_write_impl(0);  in rtc_init_impl
StackInitWrite ==
    /\ Top.pc = "write"
    /\ IF Overflows THEN StackFault
       ELSE StackKeep(CallFrom("ret", "rtc_write_impl", Zero64))
    /\ UNCHANGED rtcVars

\* rtc_write_impl from t_write = t to its end
rtc_write_body(s, t) ==
    LET s2 == [s EXCEPT !.twrite = t]
        s3 == RTC_WRITE_SPARE_REGISTER(RTC_EnableSpareAccess(s2), s2.twrite)
    IN  RTC_SetDateAndTime(s3, DATETIME_HWRTC_ORIGIN)

\* rtc_read_impl on its first call: the origin cached and t_write loaded
\* from the spare register; o is the conversion of the origin
rtc_read_origin(s, o) ==
    IF s.inited THEN s
    ELSE IF ~o.ok THEN [s EXCEPT !.inited = TRUE]
    ELSE [RTC_EnableSpareAccess(s) EXCEPT !.inited = TRUE,
                                          !.origin = W64(o.seconds),
                                          !.twrite = RTC_READ_SPARE_REGISTER(s)]

\* the rest of rtc_write_impl after its check, and the rest of rtc_read_impl
\* after its check, each intermediate value computed once: o and el are the
\* conversions of the origin and of the present date-time, d is
\* t_hwrtc_elapsed - t_hwrtc_origin
StackBody ==
    /\ Top.pc = "body"
    /\ IF Top.fn = "rtc_write_impl"
       THEN \E s \in {rtc_write_body(St, Top.t)} : Commit(s) /\ ret' = ret
       ELSE \E o \in {rtc_maketime(rtc_convert_datetime_hwrtc_to_tm(
                          DATETIME_HWRTC_ORIGIN))} :
            \E s2 \in {rtc_read_origin(St, o)} :
            \E el \in {rtc_maketime(rtc_convert_datetime_hwrtc_to_tm(
                           RTC_GetDateAndTime(s2)))} :
            \E d \in {Sub64(W64(el.seconds), s2.origin)} :
                /\ Commit(s2)
                /\ ret' = IF (~t_hwrtc_origin_inited /\ ~o.ok) \/ ~el.ok
                          THEN Zero64
                          ELSE Add64(s2.twrite, d)
    /\ obs' = [obs EXCEPT !.stack = Goto("ret")]
    /\ UNCHANGED <<lastOp, lastArg, sp, canVars>>

StackReturn ==
    /\ Top.pc = "ret"
    /\ StackKeep(Below)
    /\ UNCHANGED rtcVars

\* the processor executes the next statement of the innermost call
StackStep ==
    /\ obs.stack # <<>> /\ ~obs.fault
    /\ \/ StackCheck
       \/ StackOpen
       \/ StackInitWrite
       \/ StackBody
       \/ StackReturn

\* the RTC starts: the active flag gets set
HwActivate ==
    /\ obs.opened /\ ~RTC_INIT_ACTIVE
    /\ RTC_INIT_ACTIVE' = TRUE
    /\ UNCHANGED <<t_hwrtc_origin_inited, t_hwrtc_origin, t_write, CLK_RTCCKEN,
                   RTC_SPRRWEN, RTC_SPR0, hwrtc, obsVars, sp, canVars>>

\* a reset of the core between two calls
StackReset ==
    /\ obs.stack = <<>> /\ ~obs.fault
    /\ t_hwrtc_origin_inited' = FALSE
    /\ t_hwrtc_origin' = Zero64
    /\ t_write' = Zero64
    /\ CLK_RTCCKEN' = FALSE
    /\ lastOp' = "reset"
    /\ UNCHANGED <<RTC_INIT_ACTIVE, RTC_SPRRWEN, RTC_SPR0, hwrtc, lastArg, ret,
                   obs, sp, canVars>>

NextStack ==
    \/ StackCall("rtc_init_impl", Zero64)
    \/ StackCall("rtc_read_impl", Zero64)
    \/ \E t \in StackTimes : StackCall("rtc_write_impl", t)
    \/ StackStep
    \/ HwActivate
    \/ StackReset

SpecStack == InitStack /\ [][NextStack]_vars

\* the processor keeps executing, and an RTC asked to start does start
SpecStackFair == SpecStack /\ WF_vars(StackStep) /\ WF_vars(HwActivate)

----------------------------------------------------------------------------
(* CAN: the bit-timing solver can_speed (can_api.c).                       *)
(* sp holds its arguments, its locals and where it stands:                 *)
(*   pc = "while"  at the test of the while loop                           *)
(*   pc = "done"   returned, btr being the value returned                  *)
(* uint16_t brp wraps modulo 2^16; the other quantities stay far below the *)
(* 32-bit range for the inputs of the model.                               *)

\* This table has the sampling points as close to 75% as possible. The first
\* value is TSEG1, the second TSEG2.  Index 0 of the C array is index 1 here.
timing_pts ==
    << <<0, 0>>, <<1, 0>>, <<2, 0>>, <<3, 0>>, <<3, 1>>, <<4, 1>>, <<5, 1>>,
       <<6, 1>>, <<6, 2>>, <<7, 2>>, <<8, 2>>, <<9, 2>>, <<9, 3>>, <<10, 3>>,
       <<11, 3>>, <<12, 3>>, <<13, 3>>, <<13, 4>>, <<14, 4>>, <<15, 4>>,
       <<15, 5>>, <<15, 6>>, <<15, 7>> >>

\* timing_pts[bits][col] of the C source
TimingPt(bits, col) == timing_pts[bits + 1][col + 1]

UInt16(n) == n % 2^16

\* for (bits = 22; bits > 0; bits--): the value of bits at the break, or 0
\* when the loop runs to its end
RECURSIVE can_speed_for(_, _, _)
can_speed_for(bits, brp, bitwidth) ==
    IF ~(bits > 0) THEN 0
    ELSE IF (bits + 3) * (brp + 1) = bitwidth THEN bits
    ELSE can_speed_for(bits - 1, brp, bitwidth)

\* variant: the prescaler tested before it is incremented
can_speed_while_TestFirst(l) ==
    LET bits == can_speed_for(22, l.brp, l.bitwidth)
    IN  [l EXCEPT !.brp = IF bits > 0 THEN l.brp ELSE UInt16(l.brp + 1),
                  !.bits = bits,
                  !.hit = IF bits > 0 THEN 1 ELSE 0]

\* one iteration of while ((!hit) && (brp < bitwidth / 4))
can_speed_while(l) ==
    LET brp  == UInt16(l.brp + 1)
        bits == can_speed_for(22, brp, l.bitwidth)
    IN  [l EXCEPT !.brp = brp,
                  !.bits = bits,
                  !.hit = IF bits > 0 THEN 1 ELSE 0]

\* variant: TSEG1 and TSEG2 taken from the wrong columns of the table
can_speed_btr_Swapped(l) ==
    IF l.hit # 0
    THEN (TimingPt(l.bits, 0) % 8) * 2^12 + (TimingPt(l.bits, 1) % 16) * 2^8
         + (l.psjw % 4) * 2^6 + (l.brp % 64) + (l.clkdiv - 1) * 2^16
    ELSE 0

\* the timing word: the bit fields do not overlap, so | is +
can_speed_btr(l) ==
    IF l.hit # 0
    THEN (TimingPt(l.bits, 1) % 8) * 2^12 + (TimingPt(l.bits, 0) % 16) * 2^8
         + (l.psjw % 4) * 2^6 + (l.brp % 64) + (l.clkdiv - 1) * 2^16
    ELSE 0

\* the locals at the first test of the while loop
can_speed_entry(sclk, cclk, psjw) ==
    [pc |-> "while", sclk |-> sclk, cclk |-> cclk, psjw |-> psjw,
     clkdiv |-> 1, bitwidth |-> sclk \div cclk,
     brp |-> UInt16((sclk \div cclk) \div 24),
     hit |-> 0, bits |-> 0, btr |-> 0]

\* bounds of the inputs
MaxSclk == 300
MaxCclk == 3
MaxSjw == 4

\* core clocks of the device and the bit rates asked for
DeviceClocks == {12000000, 48000000, 72000000}
DeviceRates == {1000000, 500000, 250000, 125000, 100000, 50000, 10000}

\* a bit rate so low that bitwidth / 24 exceeds the 16-bit prescaler counter
SlowInputs == {<<72000000, 45, 1>>}

SpeedInputs ==
    ((1..MaxSclk) \X (1..MaxCclk) \X (0..MaxSjw))
    \cup (DeviceClocks \X DeviceRates \X {1})
    \cup SlowInputs

InitSpeed ==
    /\ RtcInit
    /\ CanBoot
    /\ \E in \in SpeedInputs : sp = can_speed_entry(in[1], in[2], in[3])

SpeedWhile ==
    /\ sp.pc = "while"
    /\ sp.hit = 0 /\ sp.brp < sp.bitwidth \div 4
    /\ sp' = can_speed_while(sp)
    /\ UNCHANGED <<rtcVars, obsVars, canVars>>

SpeedReturn ==
    /\ sp.pc = "while"
    /\ ~(sp.hit = 0 /\ sp.brp < sp.bitwidth \div 4)
    /\ sp' = [sp EXCEPT !.pc = "done", !.clkdiv = sp.clkdiv - 1,
                        !.btr = can_speed_btr(sp)]
    /\ UNCHANGED <<rtcVars, obsVars, canVars>>

NextSpeed == SpeedWhile \/ SpeedReturn

SpecSpeed == InitSpeed /\ [][NextSpeed]_vars

\* ---- termination: bit rates so low that bitwidth / 4 exceeds the range of
\* the 16-bit prescaler counter (72 MHz core clock, 45 bit/s and 1 bit/s), and
\* ordinary ones
LowRateInputs ==
    {<<72000000, 45, 1>>, <<72000000, 1, 1>>, <<72000000, 500000, 1>>,
     <<72000000, 1945945, 1>>}

InitLowRate ==
    /\ RtcInit
    /\ CanBoot
    /\ \E in \in LowRateInputs : sp = can_speed_entry(in[1], in[2], in[3])

SpecLowRate == InitLowRate /\ [][NextSpeed]_vars

\* the processor keeps executing the loop
SpecLowRateFair == SpecLowRate /\ WF_vars(NextSpeed)

----------------------------------------------------------------------------
(* CAN: message objects and interrupt dispatch (can_api.c).                *)
(* The driver functions are operators on a record c that holds the         *)
(* controller and the driver statics; c.hs lists the command requests the  *)
(* function has issued (interface, message number) and c.calls the         *)
(* callbacks it has made.                                                  *)

\* ---- bit operations on naturals below 2^31
Bit(v, n) == (v \div 2^n) % 2

\* a & b on 4-bit values, as a table
NibbleAnd ==
    [x \in 0..15, y \in 0..15 |->
        ((x % 2) * (y % 2)) + 2 * (((x \div 2) % 2) * ((y \div 2) % 2))
        + 4 * (((x \div 4) % 2) * ((y \div 4) % 2))
        + 8 * ((x \div 8) * (y \div 8))]

\* a & b, four bits at a time
RECURSIVE BitAnd(_, _)
BitAnd(a, b) ==
    IF a = 0 \/ b = 0 THEN 0
    ELSE NibbleAnd[a % 16, b % 16] + 16 * BitAnd(a \div 16, b \div 16)

\* a | b
BitOr(a, b) == a + b - BitAnd(a, b)

\* a & ~m
BitClear(a, m) == a - BitAnd(a, m)

\* (v << n) & (2^width - 1), computed without leaving the 31-bit range
ShlMask(v, n, width) == (v % 2^(width - n)) * 2^n

\* a value stored into a 16-bit register
Reg16(v) == v % 2^16

\* ---- handy defines
RX_MSG_OBJ_COUNT == 31
TX_MSG_OBJ_COUNT == 1
DLC_MAX == 8
ID_STD_MASK == 2047
ID_EXT_MASK == 536870911

CANIFn_ARB2_DIR == 2^13
CANIFn_ARB2_XTD == 2^14
CANIFn_ARB2_MSGVAL == 2^15
CANIFn_MSK2_MXTD == 2^15
CANIFn_MSK2_MDIR == 2^14
CANIFn_MCTRL_EOB == 2^7
CANIFn_MCTRL_TXRQST == 2^8
CANIFn_MCTRL_UMASK == 2^12
CANIFn_MCTRL_INTPND == 2^13
CANIFn_MCTRL_MSGLST == 2^14
CANIFn_MCTRL_NEWDAT == 2^15
CANIFn_CMDMSK_DATA_B == 2^0
CANIFn_CMDMSK_DATA_A == 2^1
CANIFn_CMDMSK_TXRQST == 2^2
CANIFn_CMDMSK_NEWDAT == 2^2
CANIFn_CMDMSK_CLRINTPND == 2^3
CANIFn_CMDMSK_CTRL == 2^4
CANIFn_CMDMSK_ARB == 2^5
CANIFn_CMDMSK_MASK == 2^6
CANIFn_CMDMSK_WR == 2^7
CANIFn_CMDMSK_RD == 0
CANIFn_CMDREQ_BUSY == 2^15

CANSTAT_TXOK == 2^3
CANSTAT_RXOK == 2^4
CANSTAT_EPASS == 2^5
CANSTAT_EWARN == 2^6
CANSTAT_BOFF == 2^7

CANCNTL_INIT == 2^0
CANCNTL_IE == 2^1
CANCNTL_SIE == 2^2
CANCNTL_EIE == 2^3
CANCNTL_CCE == 2^6
CANCNTL_TEST == 2^7

CANTEST_SILENT == 2^3
CANTEST_LBACK == 2^4

IRQ_ENABLE_TX == 2^0
IRQ_ENABLE_RX == 2^1
IRQ_ENABLE_EW == 2^2
IRQ_ENABLE_EP == 2^3
IRQ_ENABLE_BE == 2^4
IRQ_ENABLE_STATUS == BitOr(IRQ_ENABLE_TX, IRQ_ENABLE_RX)
IRQ_ENABLE_ERROR == BitOr(BitOr(IRQ_ENABLE_EW, IRQ_ENABLE_EP), IRQ_ENABLE_BE)
IRQ_ENABLE_ANY == BitOr(IRQ_ENABLE_STATUS, IRQ_ENABLE_ERROR)

\* core clock of the device
SystemCoreClock == 72000000

\* ---- the controller and the statics as one record
Cn ==
    [reg |-> LPC_C_CAN0, ram |-> msgram, id |-> can_irq_id,
     handler |-> irq_handler, enabled |-> enabled_irqs, nvic |-> NVIC,
     hs |-> <<>>, calls |-> <<>>]

\* ---- registers the controller derives from the message RAM
\* bits j = 0..n-1 : bit `bit' of field f of message object first+j
RECURSIVE Bitmap(_, _, _, _, _)
Bitmap(ram, first, n, f, bit) ==
    IF n = 0 THEN 0
    ELSE Bitmap(ram, first, n - 1, f, bit) + Bit(ram[first + n - 1][f], bit) * 2^(n - 1)

CANMSGV1(c) == Bitmap(c.ram, 1, 16, "ARB2", 15)
CANMSGV2(c) == Bitmap(c.ram, 17, 16, "ARB2", 15)
CANTXREQ1(c) == Bitmap(c.ram, 1, 16, "MCTRL", 8)
CANTXREQ2(c) == Bitmap(c.ram, 17, 16, "MCTRL", 8)
CANND1(c) == Bitmap(c.ram, 1, 16, "MCTRL", 15)
CANND2(c) == Bitmap(c.ram, 17, 16, "MCTRL", 15)

\* bit i (0..31) of the 32-bit value lo | (hi << 16), for lo below 2^31
Pair32Bit(lo, hi, i) ==
    IF i < 16 THEN Bit(lo, i)
    ELSE IF (i < 31 /\ Bit(lo, i) = 1) \/ Bit(hi, i - 16) = 1 THEN 1 ELSE 0

\* ---- the controller's answer to a write of IFn_CMDREQ
\* write direction: the fields the command mask selects go from the
\* interface registers to the message object
TransferToObject(ifc, o) ==
    LET cm == ifc.CMDMSK
        o1 == IF Bit(cm, 6) = 1
              THEN [o EXCEPT !.MSK1 = ifc.MSK1, !.MSK2 = ifc.MSK2] ELSE o
        o2 == IF Bit(cm, 5) = 1
              THEN [o1 EXCEPT !.ARB1 = ifc.ARB1, !.ARB2 = ifc.ARB2] ELSE o1
        o3 == IF Bit(cm, 4) = 1 THEN [o2 EXCEPT !.MCTRL = ifc.MCTRL] ELSE o2
        o4 == IF Bit(cm, 2) = 1
              THEN [o3 EXCEPT !.MCTRL = BitOr(o3.MCTRL, CANIFn_MCTRL_TXRQST)]
              ELSE o3
        o5 == IF Bit(cm, 1) = 1
              THEN [o4 EXCEPT !.DA1 = ifc.DA1, !.DA2 = ifc.DA2] ELSE o4
    IN  IF Bit(cm, 0) = 1 THEN [o5 EXCEPT !.DB1 = ifc.DB1, !.DB2 = ifc.DB2] ELSE o5

\* read direction: the fields the command mask selects go from the message
\* object to the interface registers ...
TransferToInterface(ifc, o) ==
    LET cm == ifc.CMDMSK
        i1 == IF Bit(cm, 6) = 1
              THEN [ifc EXCEPT !.MSK1 = o.MSK1, !.MSK2 = o.MSK2] ELSE ifc
        i2 == IF Bit(cm, 5) = 1
              THEN [i1 EXCEPT !.ARB1 = o.ARB1, !.ARB2 = o.ARB2] ELSE i1
        i3 == IF Bit(cm, 4) = 1 THEN [i2 EXCEPT !.MCTRL = o.MCTRL] ELSE i2
        i4 == IF Bit(cm, 1) = 1
              THEN [i3 EXCEPT !.DA1 = o.DA1, !.DA2 = o.DA2] ELSE i3
    IN  IF Bit(cm, 0) = 1 THEN [i4 EXCEPT !.DB1 = o.DB1, !.DB2 = o.DB2] ELSE i4

\* ... and the new-data and interrupt-pending bits of the object are cleared
\* when the command mask asks for it
ClearOnRead(cm, o) ==
    LET m1 == IF Bit(cm, 2) = 1 THEN BitClear(o.MCTRL, CANIFn_MCTRL_NEWDAT)
              ELSE o.MCTRL
        m2 == IF Bit(cm, 3) = 1 THEN BitClear(m1, CANIFn_MCTRL_INTPND) ELSE m1
    IN  [o EXCEPT !.MCTRL = m2]

\* the busy bit of interface n
Busy(reg, n) ==
    BitAnd((IF n = 1 THEN reg.IF1 ELSE reg.IF2).CMDREQ, CANIFn_CMDREQ_BUSY) # 0

\* LPC_C_CAN0->CANIFn_CMDREQ = msgnum: the controller sets the busy bit
WriteCMDREQ(c, n, msgnum) ==
    LET v == msgnum + CANIFn_CMDREQ_BUSY
    IN  [c EXCEPT !.reg = IF n = 1 THEN [c.reg EXCEPT !.IF1.CMDREQ = v]
                          ELSE [c.reg EXCEPT !.IF2.CMDREQ = v],
                  !.hs = Append(c.hs, <<n, msgnum>>)]

\* the controller carries out the transfer asked for through interface n and
\* clears the busy bit
TransferDone(c, n) ==
    LET ifc == IF n = 1 THEN c.reg.IF1 ELSE c.reg.IF2
        msgnum == BitClear(ifc.CMDREQ, CANIFn_CMDREQ_BUSY)
        wr  == Bit(ifc.CMDMSK, 7) = 1
        ram == IF msgnum \notin 1..32 THEN c.ram
               ELSE IF wr
               THEN [c.ram EXCEPT ![msgnum] = TransferToObject(ifc, @)]
               ELSE [c.ram EXCEPT ![msgnum] = ClearOnRead(ifc.CMDMSK, @)]
        if1 == IF msgnum \in 1..32 /\ ~wr
               THEN TransferToInterface(ifc, c.ram[msgnum]) ELSE ifc
        if2 == [if1 EXCEPT !.CMDREQ = msgnum]
    IN  [c EXCEPT !.ram = ram,
                  !.reg = IF n = 1 THEN [c.reg EXCEPT !.IF1 = if2]
                          ELSE [c.reg EXCEPT !.IF2 = if2]]

\* LPC_C_CAN0->CANIFn_CMDREQ = msgnum, and the wait for the busy bit, with
\* the controller's transfer in between
CommandRequest(c, n, msgnum) == TransferDone(WriteCMDREQ(c, n, msgnum), n)

\* a write to CANSTAT: BOFF, EWARN and EPASS are read-only
WriteCANSTAT(c, v) ==
    [c EXCEPT !.reg.CANSTAT =
        BitOr(BitAnd(Reg16(v), 31),
              BitAnd(c.reg.CANSTAT,
                     BitOr(BitOr(CANSTAT_BOFF, CANSTAT_EWARN), CANSTAT_EPASS)))]

\* ---- the driver
can_disable(c) == [c EXCEPT !.reg.CANCNTL = BitOr(@, 1)]

can_enable(c) ==
    IF BitAnd(c.reg.CANCNTL, 1) # 0
    THEN [c EXCEPT !.reg.CANCNTL = BitClear(@, 1)]
    ELSE c

can_mode(c, mode) ==
    LET noTest == [c EXCEPT !.reg.CANCNTL = BitClear(@, CANCNTL_TEST)]
        test   == [c EXCEPT !.reg.CANCNTL = BitOr(@, CANCNTL_TEST)]
    IN  CASE mode = "MODE_RESET" -> [c |-> can_disable(noTest), ret |-> 1]
          [] mode = "MODE_NORMAL" -> [c |-> can_enable(noTest), ret |-> 1]
          [] mode = "MODE_SILENT" ->
                [c |-> [test EXCEPT !.reg.CANTEST =
                            BitClear(BitOr(@, CANTEST_SILENT), CANTEST_LBACK)],
                 ret |-> 1]
          [] mode = "MODE_TEST_LOCAL" ->
                [c |-> [test EXCEPT !.reg.CANTEST =
                            BitOr(BitClear(@, CANTEST_SILENT), CANTEST_LBACK)],
                 ret |-> 1]
          [] mode = "MODE_TEST_SILENT" ->
                [c |-> [test EXCEPT !.reg.CANTEST =
                            BitOr(@, BitOr(CANTEST_LBACK, CANTEST_SILENT))],
                 ret |-> 1]
          [] OTHER -> [c |-> c, ret |-> 0]

\* for (i = 0; i < 32; i++) if ((msgval & (1 << i)) == 0) { handle = i+1; break; }
FirstFreeHandle(c, handle) ==
    LET lo   == CANMSGV1(c)
        hi   == CANMSGV2(c)
        free == {i \in 0..31 : Pair32Bit(lo, hi, i) = 0}
    IN  IF free = {} THEN handle
        ELSE (CHOOSE i \in free : \A j \in free : i <= j) + 1

\* the interface-1 registers can_filter writes before its command request
can_filter_stage(c, id, mask, format) ==
    LET s1 == IF format = "CANExtended"
              THEN [c EXCEPT
                     !.reg.IF1.ARB1 = BitAnd(id, 65535),
                     !.reg.IF1.ARB2 = BitOr(BitOr(CANIFn_ARB2_MSGVAL, CANIFn_ARB2_XTD),
                                            BitAnd(id \div 2^16, 8191)),
                     !.reg.IF1.MSK1 = BitAnd(mask, 65535),
                     !.reg.IF1.MSK2 = BitOr(CANIFn_MSK2_MXTD,
                                            BitAnd(mask \div 2^16, 8191))]
              ELSE [c EXCEPT
                     !.reg.IF1.ARB2 = BitOr(CANIFn_ARB2_MSGVAL, ShlMask(id, 2, 13)),
                     !.reg.IF1.MSK2 = ShlMask(mask, 2, 13)]
        s2 == [s1 EXCEPT !.reg.IF1.MCTRL =
                  BitOr(BitOr(CANIFn_MCTRL_UMASK, CANIFn_MCTRL_EOB),
                        BitAnd(DLC_MAX, 15))]
    IN  [s2 EXCEPT !.reg.IF1.CMDMSK =
            BitOr(BitOr(BitOr(CANIFn_CMDMSK_WR, CANIFn_CMDMSK_MASK),
                        CANIFn_CMDMSK_ARB), CANIFn_CMDMSK_CTRL)]

can_filter(c, id, mask, format, handle) ==
    LET h == IF handle = 0 THEN FirstFreeHandle(c, handle) ELSE handle
    IN  IF h > 0 /\ h <= 32
        THEN [c |-> CommandRequest(can_filter_stage(c, id, mask, format), 1,
                                   BitAnd(h, 63)),
              ret |-> h]
        ELSE [c |-> c, ret |-> h]

\* for (i = first; i <= last; i++) { CMDMSK_W = WR | ARB | CTRL; CMDREQ = i; }
\* The interface registers keep their values through the loop and every
\* command request goes to another object, so the loop is written as one
\* step: each object first..last takes the fields the command mask selects.
can_config_for(c, first, last) ==
    LET s == [c EXCEPT !.reg.IF1.CMDMSK =
                 BitOr(BitOr(CANIFn_CMDMSK_WR, CANIFn_CMDMSK_ARB),
                       CANIFn_CMDMSK_CTRL)]
    IN  IF ~(first <= last) THEN c
        ELSE [s EXCEPT
               !.ram = [k \in 1..32 |->
                           IF k \in first..last
                           THEN TransferToObject(s.reg.IF1, s.ram[k])
                           ELSE s.ram[k]],
               !.reg.IF1.CMDREQ = BitAnd(last, 63),
               !.hs = s.hs \o [j \in 1..(last - first + 1) |->
                                  <<1, BitAnd(first + j - 1, 63)>>]]

\* variant: the accept-all filter of object 1 left out
can_config_rxmsgobj_NoFilter(c) ==
    LET s1 == [c EXCEPT !.reg.IF1.ARB1 = 0, !.reg.IF1.ARB2 = 0,
                        !.reg.IF1.MCTRL = 0]
        s2 == can_config_for(s1, 1, RX_MSG_OBJ_COUNT)
    IN  [c |-> s2, ret |-> 1]

can_config_rxmsgobj(c) ==
    LET s1 == [c EXCEPT !.reg.IF1.ARB1 = 0, !.reg.IF1.ARB2 = 0,
                        !.reg.IF1.MCTRL = 0]
        s2 == can_config_for(s1, 1, RX_MSG_OBJ_COUNT)
    IN  [c |-> can_filter(s2, 0, 0, "CANStandard", 1).c, ret |-> 1]

can_config_txmsgobj(c) ==
    LET s1 == [c EXCEPT !.reg.IF1.ARB1 = 0, !.reg.IF1.ARB2 = CANIFn_ARB2_DIR,
                        !.reg.IF1.MCTRL = 0]
    IN  [c |-> can_config_for(s1, RX_MSG_OBJ_COUNT + 1,
                              TX_MSG_OBJ_COUNT + RX_MSG_OBJ_COUNT),
         ret |-> 1]

\* the complete while loop of can_speed
RECURSIVE can_speed_loop(_)
can_speed_loop(l) ==
    IF l.hit = 0 /\ l.brp < l.bitwidth \div 4
    THEN can_speed_loop(can_speed_while(l))
    ELSE l

can_speed(sclk, cclk, psjw) ==
    can_speed_btr(can_speed_loop(can_speed_entry(sclk, cclk, psjw)))

\* variant: the registers written and 1 returned whatever the solver found
can_frequency_Unchecked(c, f) ==
    LET btr0   == can_speed(SystemCoreClock, f, 1)
        clkdiv == BitAnd(btr0 \div 2^16, 15)
        btr    == BitAnd(btr0, 65535)
    IN  [c |-> [c EXCEPT
                 !.reg.CANCNTL = BitClear(BitOr(@, BitOr(CANCNTL_CCE, CANCNTL_INIT)),
                                          BitOr(CANCNTL_CCE, CANCNTL_INIT)),
                 !.reg.CANCLKDIV = clkdiv,
                 !.reg.CANBT = btr,
                 !.reg.CANBRPE = 0],
         ret |-> 1]

\* int can_frequency(can_t *obj, int f)
can_frequency(c, f) ==
    LET btr0   == can_speed(SystemCoreClock, f, 1)
        clkdiv == BitAnd(btr0 \div 2^16, 15)
        btr    == BitAnd(btr0, 65535)
    IN  IF btr > 0
        THEN [c |-> [c EXCEPT
                      !.reg.CANCNTL = BitClear(BitOr(@, BitOr(CANCNTL_CCE, CANCNTL_INIT)),
                                               BitOr(CANCNTL_CCE, CANCNTL_INIT)),
                      !.reg.CANCLKDIV = clkdiv,
                      !.reg.CANBT = btr,
                      !.reg.CANBRPE = 0],
              ret |-> 1]
        ELSE [c |-> c, ret |-> 0]

\* PRESETCTRL1 |= (1UL << 7); PRESETCTRL1 &= ~(1UL << 7): the controller's
\* registers return to their reset values, the message RAM keeps its content
PeripheralReset(c) == [c EXCEPT !.reg = ResetRegisters]

can_init_freq(c, hz) ==
    LET s1 == PeripheralReset(c)
        s2 == IF BitAnd(s1.reg.CANCNTL, 1) = 0
              THEN [s1 EXCEPT !.reg.CANCNTL = BitOr(@, 1)] ELSE s1
        fr == can_frequency(s2, hz)
        s3 == [fr.c EXCEPT !.reg.CANCNTL = BitClear(@, 1)]
        s4 == can_config_rxmsgobj(s3).c
        s5 == can_config_txmsgobj(s4).c
    IN  [c |-> s5, ret |-> 0,
         freq |-> [called |-> TRUE, f |-> hz, ret |-> fr.ret,
                   before |-> s2.reg, after |-> fr.c.reg]]

can_init(c) == can_init_freq(c, 100000)

\* variant: the request bit of the object before the one taken is tested
FirstTxFree_BitBelow(c) ==
    LET lo   == BitAnd(CANTXREQ1(c), 255)
        hi   == CANTXREQ2(c)
        free == {i \in RX_MSG_OBJ_COUNT..31 : Pair32Bit(lo, hi, i - 1) = 0}
    IN  IF free = {} THEN 0
        ELSE (CHOOSE i \in free : \A j \in free : i <= j) + 1

\* for (i = RX_MSG_OBJ_COUNT; i < 32; i++) if ((txPending & (1 << i)) == 0) ...
FirstTxFree(c) ==
    LET lo   == BitAnd(CANTXREQ1(c), 255)
        hi   == CANTXREQ2(c)
        free == {i \in RX_MSG_OBJ_COUNT..31 : Pair32Bit(lo, hi, i) = 0}
    IN  IF free = {} THEN 0
        ELSE (CHOOSE i \in free : \A j \in free : i <= j) + 1

\* ((msg.data[hi] & 0xFF) << 8) | (msg.data[lo] & 0xFF), hi and lo 0-based
DataWord(msg, hi, lo) ==
    BitOr(BitAnd(msg.data[hi + 1], 255) * 2^8, BitAnd(msg.data[lo + 1], 255))

\* the interface-1 registers can_write writes before its command request
can_write_stage(c, msg) ==
    LET direction == IF msg.type = "CANData" THEN CANIFn_ARB2_DIR ELSE 0
        s1 == IF msg.format = "CANExtended"
              THEN [c EXCEPT
                     !.reg.IF1.ARB1 = BitAnd(msg.id, 65535),
                     !.reg.IF1.ARB2 =
                         Reg16(BitOr(BitOr(BitOr(CANIFn_ARB2_MSGVAL, CANIFn_ARB2_XTD),
                                           direction),
                                     BitAnd(msg.id \div 2^16, 131071))),
                     !.reg.IF1.MSK1 = BitAnd(ID_EXT_MASK, 65535),
                     !.reg.IF1.MSK2 =
                         BitOr(BitOr(CANIFn_MSK2_MXTD, CANIFn_MSK2_MDIR),
                               BitAnd(ID_EXT_MASK \div 2^16, 8191))]
              ELSE [c EXCEPT
                     !.reg.IF1.ARB2 = BitOr(BitOr(CANIFn_ARB2_MSGVAL, direction),
                                            ShlMask(msg.id, 2, 13)),
                     !.reg.IF1.MSK2 = BitOr(CANIFn_MSK2_MDIR,
                                            ShlMask(ID_STD_MASK, 2, 13))]
        s2 == [s1 EXCEPT !.reg.IF1.MCTRL =
                  BitOr(BitOr(BitOr(CANIFn_MCTRL_UMASK, CANIFn_MCTRL_TXRQST),
                              CANIFn_MCTRL_EOB),
                        BitAnd(msg.len, 15))]
        s3 == [s2 EXCEPT !.reg.IF1.DA1 = DataWord(msg, 1, 0),
                         !.reg.IF1.DA2 = DataWord(msg, 3, 2),
                         !.reg.IF1.DB1 = DataWord(msg, 5, 4),
                         !.reg.IF1.DB2 = DataWord(msg, 7, 6)]
    IN  [s3 EXCEPT !.reg.IF1.CMDMSK =
            BitOr(CANIFn_CMDMSK_WR,
            BitOr(CANIFn_CMDMSK_MASK,
            BitOr(CANIFn_CMDMSK_ARB,
            BitOr(CANIFn_CMDMSK_CTRL,
            BitOr(CANIFn_CMDMSK_TXRQST,
            BitOr(CANIFn_CMDMSK_DATA_A, CANIFn_CMDMSK_DATA_B))))))]

can_write(c, msg) ==
    LET s0     == can_enable(c)
        msgnum == FirstTxFree(s0)
    IN  IF msgnum = 0 THEN [c |-> s0, ret |-> 0]
        ELSE LET s1 == CommandRequest(can_write_stage(s0, msg), 1, BitAnd(msgnum, 63))
             IN  [c |-> WriteCANSTAT(s1, BitClear(s1.reg.CANSTAT, 2^3)),
                  ret |-> 1]

\* variant: the search runs over all 32 new-data bits
FirstNewData_AllObjects(c, handle) ==
    LET lo  == CANND1(c)
        hi  == CANND2(c)
        new == {i \in 0..31 : Pair32Bit(lo, hi, i) = 1}
    IN  IF new = {} THEN handle
        ELSE (CHOOSE i \in new : \A j \in new : i <= j) + 1

\* for (i = 0; i < RX_MSG_OBJ_COUNT; i++) if (newdata & (1 << i)) ...
FirstNewData(c, handle) ==
    LET lo  == CANND1(c)
        hi  == CANND2(c)
        new == {i \in 0..(RX_MSG_OBJ_COUNT - 1) : Pair32Bit(lo, hi, i) = 1}
    IN  IF new = {} THEN handle
        ELSE (CHOOSE i \in new : \A j \in new : i <= j) + 1

\* variant: the upper identifier bits of an extended frame masked with 0xFFF
can_read_decode_ShortMask(if2, msg) ==
    LET xtd == BitAnd(if2.ARB2, CANIFn_ARB2_XTD) # 0
        id  == IF xtd
               THEN BitOr(BitAnd(if2.ARB2, 4095) * 2^16, BitAnd(if2.ARB1, 65535))
               ELSE BitAnd(if2.ARB2, 8191) \div 2^2
    IN  [id |-> id,
         format |-> IF xtd THEN "CANExtended" ELSE "CANStandard",
         type |-> IF BitAnd(if2.ARB2, CANIFn_ARB2_DIR) # 0 THEN "CANRemote"
                  ELSE "CANData",
         len |-> BitAnd(if2.MCTRL, 15),
         data |-> << BitAnd(if2.DA1, 255), BitAnd(if2.DA1 \div 2^8, 255),
                     BitAnd(if2.DA2, 255), BitAnd(if2.DA2 \div 2^8, 255),
                     BitAnd(if2.DB1, 255), BitAnd(if2.DB1 \div 2^8, 255),
                     BitAnd(if2.DB2, 255), BitAnd(if2.DB2 \div 2^8, 255) >>]

\* the caller's message as can_read fills it from the interface-2 registers
can_read_decode(if2, msg) ==
    LET xtd == BitAnd(if2.ARB2, CANIFn_ARB2_XTD) # 0
        id  == IF xtd
               THEN BitOr(BitAnd(if2.ARB2, 8191) * 2^16, BitAnd(if2.ARB1, 65535))
               ELSE BitAnd(if2.ARB2, 8191) \div 2^2
    IN  [id |-> id,
         format |-> IF xtd THEN "CANExtended" ELSE "CANStandard",
         type |-> IF BitAnd(if2.ARB2, CANIFn_ARB2_DIR) # 0 THEN "CANRemote"
                  ELSE "CANData",
         len |-> BitAnd(if2.MCTRL, 15),
         data |-> << BitAnd(if2.DA1, 255), BitAnd(if2.DA1 \div 2^8, 255),
                     BitAnd(if2.DA2, 255), BitAnd(if2.DA2 \div 2^8, 255),
                     BitAnd(if2.DB1, 255), BitAnd(if2.DB1 \div 2^8, 255),
                     BitAnd(if2.DB2, 255), BitAnd(if2.DB2 \div 2^8, 255) >>]

\* the interface-2 register can_read writes before its command request
can_read_stage(c) ==
    [c EXCEPT !.reg.IF2.CMDMSK =
        BitOr(CANIFn_CMDMSK_RD,
        BitOr(CANIFn_CMDMSK_MASK,
        BitOr(CANIFn_CMDMSK_ARB,
        BitOr(CANIFn_CMDMSK_CTRL,
        BitOr(CANIFn_CMDMSK_CLRINTPND,
        BitOr(CANIFn_CMDMSK_TXRQST,
        BitOr(CANIFn_CMDMSK_DATA_A, CANIFn_CMDMSK_DATA_B)))))))]

can_read(c, msg, handle) ==
    LET s0 == can_enable(c)
        h  == IF handle = 0 THEN FirstNewData(s0, handle) ELSE handle
    IN  IF h > 0 /\ h <= 32
        THEN LET s1 == can_read_stage(s0)
                 s2 == CommandRequest(s1, 2, BitAnd(h, 63))
             IN  [c |-> WriteCANSTAT(s2, BitClear(s2.reg.CANSTAT, 2^4)),
                  ret |-> 1,
                  msg |-> can_read_decode(s2.reg.IF2, msg)]
        ELSE [c |-> s0, ret |-> 0, msg |-> msg]

\* variant: the controller not enabled at the end
can_reset_NoEnable(c) ==
    LET s1 == WriteCANSTAT(c, 0)
        s2 == can_config_rxmsgobj(s1).c
        s3 == can_config_txmsgobj(s2).c
    IN  [c |-> s3, ret |-> 0]

can_reset(c) ==
    LET s1 == WriteCANSTAT(c, 0)
        s2 == can_config_rxmsgobj(s1).c
        s3 == can_config_txmsgobj(s2).c
    IN  [c |-> can_enable(s3), ret |-> 0]

\* irq_handler(can_irq_id, kind)
Callback(c, kind) == [c EXCEPT !.calls = Append(@, <<c.handler, c.id, kind>>)]

\* variant: the conditions tested as a priority chain, the first one asserted
\* hiding the others
can_irq_Priority(c) ==
    LET intid  == BitAnd(c.reg.CANINT, 65535)
        status == c.reg.CANSTAT
    IN  IF intid # 32768 THEN c
        ELSE IF BitAnd(status, CANSTAT_BOFF) # 0
        THEN IF BitAnd(c.enabled, IRQ_ENABLE_BE) # 0
             THEN Callback(c, "IRQ_BUS") ELSE c
        ELSE IF BitAnd(status, CANSTAT_EPASS) # 0
        THEN IF BitAnd(c.enabled, IRQ_ENABLE_EP) # 0
             THEN Callback(c, "IRQ_PASSIVE") ELSE c
        ELSE IF BitAnd(status, CANSTAT_EWARN) # 0
        THEN IF BitAnd(c.enabled, IRQ_ENABLE_EW) # 0
             THEN Callback(c, "IRQ_ERROR") ELSE c
        ELSE IF BitAnd(status, CANSTAT_RXOK) # 0
        THEN Callback(WriteCANSTAT(c, BitClear(c.reg.CANSTAT, CANSTAT_RXOK)),
                      "IRQ_RX")
        ELSE IF BitAnd(status, CANSTAT_TXOK) # 0
        THEN Callback(WriteCANSTAT(c, BitClear(c.reg.CANSTAT, CANSTAT_TXOK)),
                      "IRQ_TX")
        ELSE c

\* variant: the receive-complete flag left set
can_irq_KeepRxok(c) ==
    LET intid == BitAnd(c.reg.CANINT, 65535)
    IN  IF intid = 32768
        THEN LET status == c.reg.CANSTAT
                 s1 == IF BitAnd(status, CANSTAT_BOFF) # 0
                          /\ BitAnd(c.enabled, IRQ_ENABLE_BE) # 0
                       THEN Callback(c, "IRQ_BUS") ELSE c
                 s2 == IF BitAnd(status, CANSTAT_EPASS) # 0
                          /\ BitAnd(s1.enabled, IRQ_ENABLE_EP) # 0
                       THEN Callback(s1, "IRQ_PASSIVE") ELSE s1
                 s3 == IF BitAnd(status, CANSTAT_EWARN) # 0
                          /\ BitAnd(s2.enabled, IRQ_ENABLE_EW) # 0
                       THEN Callback(s2, "IRQ_ERROR") ELSE s2
                 s4 == IF BitAnd(status, CANSTAT_RXOK) # 0
                       THEN Callback(s3, "IRQ_RX")
                       ELSE s3
             IN  IF BitAnd(status, CANSTAT_TXOK) # 0
                 THEN Callback(WriteCANSTAT(s4, BitClear(s4.reg.CANSTAT,
                                                         CANSTAT_TXOK)),
                               "IRQ_TX")
                 ELSE s4
        ELSE c

\* static inline void can_irq()
can_irq(c) ==
    LET intid == BitAnd(c.reg.CANINT, 65535)
    IN  IF intid = 32768
        THEN LET status == c.reg.CANSTAT
                 s1 == IF BitAnd(status, CANSTAT_BOFF) # 0
                          /\ BitAnd(c.enabled, IRQ_ENABLE_BE) # 0
                       THEN Callback(c, "IRQ_BUS") ELSE c
                 s2 == IF BitAnd(status, CANSTAT_EPASS) # 0
                          /\ BitAnd(s1.enabled, IRQ_ENABLE_EP) # 0
                       THEN Callback(s1, "IRQ_PASSIVE") ELSE s1
                 s3 == IF BitAnd(status, CANSTAT_EWARN) # 0
                          /\ BitAnd(s2.enabled, IRQ_ENABLE_EW) # 0
                       THEN Callback(s2, "IRQ_ERROR") ELSE s2
                 s4 == IF BitAnd(status, CANSTAT_RXOK) # 0
                       THEN Callback(WriteCANSTAT(s3, BitClear(s3.reg.CANSTAT,
                                                               CANSTAT_RXOK)),
                                     "IRQ_RX")
                       ELSE s3
             IN  IF BitAnd(status, CANSTAT_TXOK) # 0
                 THEN Callback(WriteCANSTAT(s4, BitClear(s4.reg.CANSTAT,
                                                         CANSTAT_TXOK)),
                               "IRQ_TX")
                 ELSE s4
        ELSE c

can_irq_init(c, handler, id) == [c EXCEPT !.handler = handler, !.id = id]

can_irq_free(c) ==
    [c EXCEPT !.reg.CANCNTL = BitClear(@, 2^1),
              !.id = 0,
              !.nvic.enabled = FALSE]

\* variant: the status-change enable bit following Receive-complete alone
can_irq_set_RxOnly(c, type, enable) ==
    LET known == type \in {"IRQ_RX", "IRQ_TX", "IRQ_BUS", "IRQ_PASSIVE", "IRQ_ERROR"}
        mask_enable ==
            CASE type = "IRQ_RX" -> IRQ_ENABLE_RX
              [] type = "IRQ_TX" -> IRQ_ENABLE_TX
              [] type = "IRQ_BUS" -> IRQ_ENABLE_BE
              [] type = "IRQ_PASSIVE" -> IRQ_ENABLE_EP
              [] type = "IRQ_ERROR" -> IRQ_ENABLE_EW
              [] OTHER -> 0
        e  == IF enable # 0 THEN BitOr(c.enabled, mask_enable)
              ELSE BitClear(c.enabled, mask_enable)
        s1 == can_disable([c EXCEPT !.enabled = e])
        s2 == IF BitAnd(e, IRQ_ENABLE_ANY) = 0
              THEN [s1 EXCEPT !.reg.CANCNTL = BitClear(@, 2^1 + 2^2 + 2^3)]
              ELSE LET a == [s1 EXCEPT !.reg.CANCNTL = BitOr(@, 2^1)]
                       b == IF BitAnd(e, IRQ_ENABLE_RX) # 0
                            THEN [a EXCEPT !.reg.CANCNTL = BitOr(@, 2^2)]
                            ELSE [a EXCEPT !.reg.CANCNTL = BitClear(@, 2^2)]
                   IN  IF BitAnd(e, IRQ_ENABLE_ERROR) # 0
                       THEN [b EXCEPT !.reg.CANCNTL = BitOr(@, 2^3)]
                       ELSE [b EXCEPT !.reg.CANCNTL = BitClear(@, 2^3)]
        s3 == can_enable(s2)
    IN  IF ~known THEN c
        ELSE [s3 EXCEPT !.nvic = [vector |-> "can_irq", enabled |-> TRUE]]

can_irq_set(c, type, enable) ==
    LET known == type \in {"IRQ_RX", "IRQ_TX", "IRQ_BUS", "IRQ_PASSIVE", "IRQ_ERROR"}
        mask_enable ==
            CASE type = "IRQ_RX" -> IRQ_ENABLE_RX
              [] type = "IRQ_TX" -> IRQ_ENABLE_TX
              [] type = "IRQ_BUS" -> IRQ_ENABLE_BE
              [] type = "IRQ_PASSIVE" -> IRQ_ENABLE_EP
              [] type = "IRQ_ERROR" -> IRQ_ENABLE_EW
              [] OTHER -> 0
        e  == IF enable # 0 THEN BitOr(c.enabled, mask_enable)
              ELSE BitClear(c.enabled, mask_enable)
        s1 == can_disable([c EXCEPT !.enabled = e])
        s2 == IF BitAnd(e, IRQ_ENABLE_ANY) = 0
              THEN [s1 EXCEPT !.reg.CANCNTL = BitClear(@, 2^1 + 2^2 + 2^3)]
              ELSE LET a == [s1 EXCEPT !.reg.CANCNTL = BitOr(@, 2^1)]
                       b == IF BitAnd(e, IRQ_ENABLE_STATUS) # 0
                            THEN [a EXCEPT !.reg.CANCNTL = BitOr(@, 2^2)]
                            ELSE [a EXCEPT !.reg.CANCNTL = BitClear(@, 2^2)]
                   IN  IF BitAnd(e, IRQ_ENABLE_ERROR) # 0
                       THEN [b EXCEPT !.reg.CANCNTL = BitOr(@, 2^3)]
                       ELSE [b EXCEPT !.reg.CANCNTL = BitClear(@, 2^3)]
        s3 == can_enable(s2)
    IN  IF ~known THEN c
        ELSE [s3 EXCEPT !.nvic = [vector |-> "can_irq", enabled |-> TRUE]]

----------------------------------------------------------------------------
(* CAN: the controller's own steps.  The frames the controller receives    *)
(* are those a peer running the same driver sends: the frame of can_write  *)
(* of the peer, taken from the peer's transmit object.                     *)

\* the 29 identifier bits ID28..ID0 and mask bits Msk28..Msk0 of an object
ObjectId29(o) == BitAnd(o.ARB2, 8191) * 2^16 + o.ARB1
ObjectMask29(o) == BitAnd(o.MSK2, 8191) * 2^16 + o.MSK1

\* the eight data bytes of an object, byte 0 first
ObjectData(o) ==
    << o.DA1 % 256, o.DA1 \div 256, o.DA2 % 256, o.DA2 \div 256,
       o.DB1 % 256, o.DB1 \div 256, o.DB2 % 256, o.DB2 \div 256 >>

\* a frame as the controller sends it from a transmit object
FrameOf(o, src) ==
    LET xtd == Bit(o.ARB2, 14) = 1
    IN  [some |-> TRUE,
         xtd |-> xtd,
         id |-> IF xtd THEN ObjectId29(o) ELSE BitAnd(o.ARB2, 8191) \div 4,
         dlc |-> o.MCTRL % 16,
         data |-> ObjectData(o),
         src |-> src]

\* number of data bytes of a frame
FrameBytes(f) == IF f.dlc > 8 THEN 8 ELSE f.dlc

\* acceptance filtering of a data frame by a message object
Accepts(o, f) ==
    LET umask == Bit(o.MCTRL, 12) = 1
        fid   == IF f.xtd THEN f.id ELSE f.id * 2^18
        used  == IF f.xtd THEN ID_EXT_MASK ELSE ID_STD_MASK * 2^18
        m     == IF umask THEN BitAnd(ObjectMask29(o), used) ELSE used
        oxtd  == Bit(o.ARB2, 14) = 1
    IN  /\ Bit(o.ARB2, 15) = 1
        /\ Bit(o.ARB2, 13) = 0
        /\ (umask /\ Bit(o.MSK2, 15) = 0) \/ (oxtd = f.xtd)
        /\ BitAnd(ObjectId29(o), m) = BitAnd(fid, m)

\* the object after the frame has been stored into it
Stored(o, f) ==
    LET n    == FrameBytes(f)
        old  == ObjectData(o)
        d    == [j \in 1..8 |-> IF j <= n THEN f.data[j] ELSE old[j]]
        ctl  == BitOr(BitOr((o.MCTRL - (o.MCTRL % 16)) + f.dlc, CANIFn_MCTRL_NEWDAT),
                      IF Bit(o.MCTRL, 15) = 1 THEN CANIFn_MCTRL_MSGLST ELSE 0)
    IN  [o EXCEPT
          !.ARB1 = IF f.xtd THEN f.id % 2^16 ELSE @,
          !.ARB2 = CANIFn_ARB2_MSGVAL
                   + (IF f.xtd THEN CANIFn_ARB2_XTD + f.id \div 2^16 ELSE f.id * 4),
          !.MCTRL = ctl,
          !.DA1 = d[1] + 256 * d[2], !.DA2 = d[3] + 256 * d[4],
          !.DB1 = d[5] + 256 * d[6], !.DB2 = d[7] + 256 * d[8]]

\* message objects with a transmission requested
TxRequested == {k \in 1..32 : Bit(msgram[k].ARB2, 15) = 1 /\ Bit(msgram[k].MCTRL, 8) = 1}

\* message objects of the message RAM ram that accept the frame f
Accepting(ram, f) == {k \in 1..32 : Accepts(ram[k], f)}

Lowest(S) == CHOOSE k \in S : \A j \in S : k <= j

----------------------------------------------------------------------------
(* CAN: the calls and their inputs.                                        *)

\* bounds of a run: successful can_write calls, can_filter calls that name
\* their handle, can_read calls, (where the specification bounds them)
\* can_filter calls that leave the choice of the handle to the driver, and
\* frames on the bus
MaxWrites == 2
MaxNamedFilters == 2
MaxReads == 1
MaxAutoFilters == 1
MaxReceives == 2

\* messages given to can_write
MsgInputs ==
    { [id |-> 2047, format |-> "CANStandard", type |-> "CANData", len |-> 8,
       data |-> <<17, 34, 51, 68, 85, 102, 119, 136>>],
      [id |-> 291, format |-> "CANStandard", type |-> "CANData", len |-> 0,
       data |-> <<0, 0, 0, 0, 0, 0, 0, 0>>],
      [id |-> 305419896, format |-> "CANExtended", type |-> "CANData", len |-> 3,
       data |-> <<1, 128, 255, 0, 0, 0, 0, 0>>],
      [id |-> 256, format |-> "CANStandard", type |-> "CANRemote", len |-> 2,
       data |-> <<0, 0, 0, 0, 0, 0, 0, 0>>] }

\* identifier, mask and format given to can_filter
FilterInputs ==
    { <<291, 2047, "CANStandard">>,
      <<305419896, 536870911, "CANExtended">> }

\* the filter of the calls that let can_filter choose the handle
AutoFilter == <<2047, 2047, "CANStandard">>

\* handles given to can_filter and can_read
NamedHandles == {-1, 1, 32, 33}
ReadHandles == {-1, 0, 1, 32, 33}

\* the message, the filter and the handles of the runs that fill the pool
PoolMsgs == {m \in MsgInputs : m.id = 2047}
PoolFilters == {<<291, 2047, "CANStandard">>}
PoolHandles == {-1, 31, 32, 33}

\* the handles of the runs that reset the controller, and the bit rate of
\* their repeated initialisation
ResetHandles == {1, 32}
ResetRates == {500000}

\* bit rates given to can_init_freq and can_frequency: 1945945 and 72000000
\* divide the core clock to the bit widths 37 and 1, which have no solution
FreqInputs == {100000, 500000, 1945945, 72000000}

ModeInputs ==
    {"MODE_RESET", "MODE_NORMAL", "MODE_SILENT", "MODE_TEST_LOCAL",
     "MODE_TEST_SILENT", "MODE_TEST_GLOBAL"}

\* the mode that stops the controller
RunModes == {"MODE_RESET"}

CommitCan(c) ==
    /\ can_irq_id' = c.id
    /\ irq_handler' = c.handler
    /\ enabled_irqs' = c.enabled
    /\ LPC_C_CAN0' = c.reg
    /\ msgram' = c.ram
    /\ NVIC' = c.nvic

\* what a step that is not a call of the driver leaves in canObs
ObsStep(op, arg) ==
    [canObs EXCEPT !.op = op, !.arg = arg, !.ret = 0, !.hs = <<>>,
                   !.calls = <<>>, !.rxmsg = CallerMessage,
                   !.freq = [called |-> FALSE], !.got = [some |-> FALSE]]

\* bookkeeping common to every call: o is canObs with the call's own changes
ObserveCan(op, arg, r, o) ==
    /\ canObs' = [o EXCEPT !.op = op, !.arg = arg, !.ret = r.ret,
                           !.hs = r.c.hs, !.calls = r.c.calls,
                           !.rxmsg = IF op = "can_read" THEN o.rxmsg
                                     ELSE CallerMessage,
                           !.freq = IF op \in {"can_init_freq", "can_frequency"}
                                    THEN o.freq ELSE [called |-> FALSE],
                           !.got = IF op = "can_read" THEN o.got
                                   ELSE [some |-> FALSE]]
    /\ UNCHANGED <<rtcVars, obsVars, sp>>

\* a delivery is forgotten once interface 1 has written to its slot
Forget(o, hs) ==
    IF o.delivered.some /\ \E i \in 1..Len(hs) : hs[i] = <<1, o.delivered.slot>>
    THEN [o EXCEPT !.delivered = [some |-> FALSE]]
    ELSE o

Call_can_init_freq(hz) ==
    LET r == can_init_freq(Cn, hz)
    IN  /\ CommitCan(r.c)
        /\ ObserveCan("can_init_freq", <<hz>>, r,
                      [canObs EXCEPT !.inited = TRUE, !.freq = r.freq,
                                     !.delivered = [some |-> FALSE]])

Call_can_init ==
    LET r == can_init(Cn)
    IN  /\ CommitCan(r.c)
        /\ ObserveCan("can_init", <<>>, r,
                      [canObs EXCEPT !.inited = TRUE,
                                     !.delivered = [some |-> FALSE]])

Call_can_frequency(f) ==
    LET r == can_frequency(Cn, f)
    IN  /\ canObs.inited
        /\ CommitCan(r.c)
        /\ ObserveCan("can_frequency", <<f>>, r,
                      [canObs EXCEPT !.freq =
                          [called |-> TRUE, f |-> f, ret |-> r.ret,
                           before |-> LPC_C_CAN0, after |-> r.c.reg]])

Call_can_mode(mode) ==
    LET r == can_mode(Cn, mode)
    IN  /\ canObs.inited
        /\ CommitCan(r.c)
        /\ ObserveCan("can_mode", <<mode>>, r, canObs)

Call_can_filter(id, mask, format, handle) ==
    LET r == can_filter(Cn, id, mask, format, handle)
    IN  /\ canObs.inited
        /\ handle # 0 => canObs.named < MaxNamedFilters
        /\ CommitCan(r.c)
        /\ ObserveCan("can_filter", <<id, mask, format, handle>>, r,
                      [Forget(canObs, r.c.hs) EXCEPT
                          !.named = IF handle # 0 THEN @ + 1 ELSE @,
                          !.autos = IF handle = 0 /\ @ < MaxAutoFilters
                                    THEN @ + 1 ELSE @])

Call_can_write(msg) ==
    LET r == can_write(Cn, msg)
    IN  /\ canObs.inited
        /\ canObs.writes < MaxWrites \/ r.ret = 0
        /\ CommitCan(r.c)
        /\ ObserveCan("can_write", <<msg>>, r,
                      [Forget(canObs, r.c.hs) EXCEPT
                          !.writes = IF r.ret = 1 THEN @ + 1 ELSE @,
                          !.written = IF r.ret = 1 THEN msg ELSE @])

\* the caller passes a message that holds CallerMessage
Call_can_read(handle) ==
    LET r == can_read(Cn, CallerMessage, handle)
        h == IF r.ret = 1 THEN r.c.hs[1][2] ELSE 0
    IN  /\ canObs.inited
        /\ canObs.reads < MaxReads
        /\ CommitCan(r.c)
        /\ ObserveCan("can_read", <<handle>>, r,
                      [canObs EXCEPT
                          !.reads = @ + 1,
                          !.rxmsg = r.msg,
                          !.got = IF canObs.delivered.some /\ canObs.delivered.slot = h
                                  THEN [some |-> TRUE, msg |-> canObs.delivered.msg]
                                  ELSE [some |-> FALSE]])

Call_can_reset ==
    LET r == can_reset(Cn)
    IN  /\ canObs.inited
        /\ CommitCan(r.c)
        /\ ObserveCan("can_reset", <<>>, r,
                      [canObs EXCEPT !.delivered = [some |-> FALSE]])

\* the transmit object of a peer after its can_write(msg): the fields
\* can_write stages, moved into the object by its command request
PeerTxObject(msg) ==
    TransferToObject(can_write_stage(Cn, msg).reg.IF1, ZeroObject)

\* the controller sends the frame of the lowest object that requests it
HwTransmit ==
    LET k == Lowest(TxRequested)
    IN  /\ TxRequested # {}
        /\ BitAnd(LPC_C_CAN0.CANCNTL, CANCNTL_INIT) = 0
        /\ msgram' = [msgram EXCEPT ![k].MCTRL =
                         BitClear(@, BitOr(CANIFn_MCTRL_TXRQST, CANIFn_MCTRL_NEWDAT))]
        /\ LPC_C_CAN0' = [LPC_C_CAN0 EXCEPT !.CANSTAT = BitOr(@, CANSTAT_TXOK)]
        /\ canObs' = ObsStep("transmit", <<k>>)
        /\ UNCHANGED <<can_irq_id, irq_handler, enabled_irqs, NVIC>>
        /\ UNCHANGED <<rtcVars, obsVars, sp>>

\* the data frame of the peer's can_write(msg) is on the bus: the controller
\* stores it into the lowest object that accepts it, or ignores it when no
\* object does
HwReceive(msg) ==
    LET f   == FrameOf(PeerTxObject(msg), msg)
        acc == Accepting(msgram, f)
    IN  /\ canObs.inited
        /\ canObs.receives < MaxReceives
        /\ msg.type = "CANData"
        /\ BitAnd(LPC_C_CAN0.CANCNTL, CANCNTL_INIT) = 0
        /\ IF acc = {}
           THEN /\ UNCHANGED <<msgram, LPC_C_CAN0>>
                /\ canObs' = [ObsStep("ignore", <<msg>>) EXCEPT !.receives = @ + 1]
           ELSE /\ msgram' = [msgram EXCEPT ![Lowest(acc)] = Stored(@, f)]
                /\ LPC_C_CAN0' = [LPC_C_CAN0 EXCEPT !.CANSTAT = BitOr(@, CANSTAT_RXOK)]
                /\ canObs' = [ObsStep("receive", <<msg, Lowest(acc)>>) EXCEPT
                                 !.receives = @ + 1,
                                 !.delivered = [some |-> TRUE, slot |-> Lowest(acc),
                                                msg |-> msg]]
        /\ UNCHANGED <<can_irq_id, irq_handler, enabled_irqs, NVIC>>
        /\ UNCHANGED <<rtcVars, obsVars, sp>>

\* the controller goes bus-off: it sets the status flag and enters
\* initialisation mode
HwBusOff ==
    /\ canObs.inited
    /\ BitAnd(LPC_C_CAN0.CANSTAT, CANSTAT_BOFF) = 0
    /\ LPC_C_CAN0' = [LPC_C_CAN0 EXCEPT !.CANSTAT = BitOr(@, CANSTAT_BOFF),
                                        !.CANCNTL = BitOr(@, CANCNTL_INIT)]
    /\ canObs' = ObsStep("busoff", <<>>)
    /\ UNCHANGED <<can_irq_id, irq_handler, enabled_irqs, msgram, NVIC>>
    /\ UNCHANGED <<rtcVars, obsVars, sp>>

\* ---- transmission: filters and can_write on the initialised controller
NextCan ==
    \/ ~canObs.inited /\ Call_can_init
    \/ \E fi \in FilterInputs, h \in NamedHandles :
          Call_can_filter(fi[1], fi[2], fi[3], h)
    \/ \E msg \in MsgInputs : Call_can_write(msg)
    \/ HwTransmit

SpecCan == Init /\ [][NextCan]_vars

\* ---- reception: filters, frames of a peer and can_read on the initialised
\* controller
NextRx ==
    \/ ~canObs.inited /\ Call_can_init
    \/ \E fi \in FilterInputs, h \in NamedHandles :
          Call_can_filter(fi[1], fi[2], fi[3], h)
    \/ /\ canObs.autos < MaxAutoFilters
       /\ Call_can_filter(AutoFilter[1], AutoFilter[2], AutoFilter[3], 0)
    \/ \E msg \in MsgInputs : HwReceive(msg)
    \/ \E h \in ReadHandles : Call_can_read(h)

SpecRx == Init /\ [][NextRx]_vars

\* ---- reset of a controller in use
NextReset ==
    \/ ~canObs.inited /\ Call_can_init
    \/ \E hz \in ResetRates : canObs.inited /\ Call_can_init_freq(hz)
    \/ \E fi \in PoolFilters, h \in ResetHandles :
          Call_can_filter(fi[1], fi[2], fi[3], h)
    \/ /\ canObs.autos < MaxAutoFilters
       /\ Call_can_filter(AutoFilter[1], AutoFilter[2], AutoFilter[3], 0)
    \/ \E msg \in PoolMsgs : Call_can_write(msg)
    \/ \E mode \in RunModes : Call_can_mode(mode)
    \/ Call_can_reset
    \/ \E msg \in PoolMsgs : HwReceive(msg)
    \/ HwBusOff

SpecReset == Init /\ [][NextReset]_vars

\* ---- one frame through filter, reception and can_read
\* frames of a run
MaxFrames == 1

\* identifiers, lengths and payloads of the frames
FrameStdIds == {0, 1, 1365, 2047}
FrameExtIds == {0, 1, 65536, 305419896, 536870911}
FrameLens == {0, 3, 8}
FramePayloads ==
    { <<17, 34, 51, 68, 85, 102, 119, 136>>,
      <<255, 0, 128, 1, 254, 127, 0, 255>> }

FrameInputs ==
    { [id |-> i, format |-> "CANStandard", type |-> "CANData", len |-> n, data |-> d] :
        i \in FrameStdIds, n \in FrameLens, d \in FramePayloads }
    \cup
    { [id |-> i, format |-> "CANExtended", type |-> "CANData", len |-> n, data |-> d] :
        i \in FrameExtIds, n \in FrameLens, d \in FramePayloads }

\* filters: every extended frame, one extended identifier, one standard
\* identifier (can_init leaves the filter for every standard frame)
FrameFilters ==
    { <<0, 0, "CANExtended">>, <<536870911, 536870911, "CANExtended">>,
      <<1365, 2047, "CANStandard">> }

FrameHandles == {1, 2}

NextFrame ==
    \/ ~canObs.inited /\ Call_can_init
    \/ \E fi \in FrameFilters, h \in FrameHandles :
          Call_can_filter(fi[1], fi[2], fi[3], h)
    \/ \E msg \in FrameInputs : canObs.receives < MaxFrames /\ HwReceive(msg)
    \/ \E h \in FrameHandles \cup {0} : Call_can_read(h)

SpecFrame == Init /\ [][NextFrame]_vars

\* ---- lengths: every 4-bit length code, from the caller and from the bus
LenCodes == 0..15

LenInputs ==
    { [id |-> 1365, format |-> "CANStandard", type |-> "CANData", len |-> n,
       data |-> <<17, 34, 51, 68, 85, 102, 119, 136>>] : n \in LenCodes }

NextLen ==
    \/ ~canObs.inited /\ Call_can_init
    \/ \E msg \in LenInputs : canObs.writes < MaxFrames /\ Call_can_write(msg)
    \/ HwTransmit
    \/ \E msg \in LenInputs : canObs.receives < MaxFrames /\ HwReceive(msg)
    \/ Call_can_read(0)

SpecLen == Init /\ [][NextLen]_vars

\* ---- the pool filled by can_filter calls that leave the handle to the driver
NextPool ==
    \/ ~canObs.inited /\ Call_can_init
    \/ Call_can_filter(AutoFilter[1], AutoFilter[2], AutoFilter[3], 0)
    \/ \E fi \in PoolFilters, h \in PoolHandles :
          Call_can_filter(fi[1], fi[2], fi[3], h)
    \/ \E msg \in PoolMsgs : Call_can_write(msg)

SpecPool == Init /\ [][NextPool]_vars

\* ---- bit timing and mode
NextCtl ==
    \/ Call_can_init
    \/ \E hz \in FreqInputs : Call_can_init_freq(hz)
    \/ \E f \in FreqInputs : Call_can_frequency(f)
    \/ \E mode \in ModeInputs : Call_can_mode(mode)
    \/ Call_can_reset
    \/ HwBusOff

SpecCtl == Init /\ [][NextCtl]_vars

----------------------------------------------------------------------------
(* CAN: the interrupt entry points, the dispatcher and the controller's    *)
(* status changes.                                                         *)

\* handlers and ids given to can_irq_init
HandlerInputs == {"handlerA"}
IdInputs == {7}

\* kinds given to can_irq_set: reception and the three error conditions
KindInputs == {"IRQ_RX", "IRQ_ERROR", "IRQ_PASSIVE", "IRQ_BUS"}

\* interrupt identifiers the controller presents in CANINT: none, message
\* objects 1 and 32, the status interrupt
IntInputs == {0, 1, 32, 32768}

\* status flags the controller raises together
StatusInputs ==
    { {}, {CANSTAT_BOFF}, {CANSTAT_BOFF, CANSTAT_EPASS, CANSTAT_RXOK},
      {CANSTAT_EWARN, CANSTAT_TXOK},
      {CANSTAT_BOFF, CANSTAT_EPASS, CANSTAT_EWARN, CANSTAT_RXOK, CANSTAT_TXOK} }

RECURSIVE SumOf(_)
SumOf(S) ==
    IF S = {} THEN 0
    ELSE LET x == CHOOSE y \in S : TRUE IN x + SumOf(S \ {x})

\* the processor runs until a fault stops it
Running == canObs.op # "HardFault"

\* canObs.freed: can_irq_free has been called and can_irq_init has not been
\* called since
Call_can_irq_init(handler, id) ==
    LET c == can_irq_init(Cn, handler, id)
    IN  /\ Running
        /\ CommitCan(c)
        /\ ObserveCan("can_irq_init", <<handler, id>>, [c |-> c, ret |-> 0],
                      [canObs EXCEPT !.freed = FALSE])

Call_can_irq_free ==
    LET c == can_irq_free(Cn)
    IN  /\ Running
        /\ CommitCan(c)
        /\ ObserveCan("can_irq_free", <<>>, [c |-> c, ret |-> 0],
                      [canObs EXCEPT !.freed = TRUE])

Call_can_irq_set(type, enable) ==
    LET c == can_irq_set(Cn, type, enable)
    IN  /\ Running
        /\ CommitCan(c)
        /\ ObserveCan("can_irq_set", <<type, enable>>, [c |-> c, ret |-> 0], canObs)

\* the controller changes its status: the error flags take the values the
\* controller gives them, the completion flags are set and stay set until
\* the processor clears them
HwStatus(flags) ==
    LET old  == LPC_C_CAN0.CANSTAT
        kept == BitAnd(old, BitOr(CANSTAT_RXOK, CANSTAT_TXOK))
        new  == BitOr(kept, SumOf(flags))
    IN  /\ Running
        /\ new # old
        /\ LPC_C_CAN0' = [LPC_C_CAN0 EXCEPT !.CANSTAT = new]
        /\ canObs' = ObsStep("status", <<new>>)
        /\ UNCHANGED <<can_irq_id, irq_handler, enabled_irqs, msgram, NVIC>>
        /\ UNCHANGED <<rtcVars, obsVars, sp>>

\* a call through irq_handler while it holds no function is undefined: the
\* call comes back, or the processor faults and runs no further
DispatchOutcomes(c) ==
    IF \E i \in 1..Len(c.calls) : c.calls[i][1] = "NULL"
    THEN {"can_irq", "HardFault"}
    ELSE {"can_irq"}

\* the interrupt C_CAN0_IRQn is taken with intid in CANINT: the vector
\* installed in the NVIC runs
Call_can_irq(intid) ==
    LET c == can_irq([Cn EXCEPT !.reg.CANINT = intid])
    IN  /\ Running
        /\ NVIC.enabled /\ NVIC.vector = "can_irq"
        /\ BitAnd(LPC_C_CAN0.CANCNTL, CANCNTL_IE) # 0
        /\ CommitCan(c)
        /\ \E outcome \in DispatchOutcomes(c) :
               ObserveCan(outcome, <<intid, LPC_C_CAN0.CANSTAT>>,
                          [c |-> c, ret |-> 0], canObs)

NextIrq ==
    \/ \E h \in HandlerInputs, id \in IdInputs : Call_can_irq_init(h, id)
    \/ Call_can_irq_free
    \/ \E t \in KindInputs, e \in {0, 1} : Call_can_irq_set(t, e)
    \/ \E flags \in StatusInputs : HwStatus(flags)
    \/ \E intid \in IntInputs : Call_can_irq(intid)

SpecIrq == Init /\ [][NextIrq]_vars

\* every kind the driver distinguishes, and one it does not
AllKindInputs ==
    {"IRQ_RX", "IRQ_TX", "IRQ_ERROR", "IRQ_PASSIVE", "IRQ_BUS", "IRQ_WAKEUP"}

\* status of the controller while the interrupt line is exercised: nothing,
\* a reception, everything at once
LineStatusInputs ==
    { {}, {CANSTAT_RXOK},
      {CANSTAT_BOFF, CANSTAT_EPASS, CANSTAT_EWARN, CANSTAT_RXOK, CANSTAT_TXOK} }

\* the interrupt line: registration, all kinds switched on and off, the
\* status interrupt
NextLine ==
    \/ \E h \in HandlerInputs, id \in IdInputs : Call_can_irq_init(h, id)
    \/ Call_can_irq_free
    \/ \E t \in AllKindInputs, e \in {0, 1} : Call_can_irq_set(t, e)
    \/ \E flags \in LineStatusInputs : HwStatus(flags)
    \/ Call_can_irq(32768)

SpecLine == Init /\ [][NextLine]_vars

----------------------------------------------------------------------------
(* CAN: the command handshake step by step.  A call of the driver is the   *)
(* sequence of its waits for the busy bit, its writes of the interface     *)
(* registers and its command requests; the controller completes a          *)
(* requested transfer in a step of its own, and can_read may run in        *)
(* interrupt context between two steps of can_write or can_filter.         *)

WaitStep(n) == [do |-> "wait", n |-> n, a |-> <<>>]
StageStep(n, by, a) == [do |-> "stage", n |-> n, a |-> <<by>> \o a]
RequestStep(n, msgnum) == [do |-> "request", n |-> n, a |-> <<msgnum>>]
OtherStep(by, a) == [do |-> by, n |-> 0, a |-> a]
ReturnStep(v) == [do |-> "return", n |-> 0, a |-> <<v>>]

\* variant: can_filter returns without waiting for its transfer
can_filter_steps_NoWait(h, id, mask, format) ==
    IF h > 0 /\ h <= 32
    THEN << StageStep(1, "can_filter", <<id, mask, format>>),
            RequestStep(1, BitAnd(h, 63)) >>
    ELSE <<>>

\* can_filter from 'if (handle > 0 && handle <= 32)' on, h the handle found
can_filter_steps(h, id, mask, format) ==
    IF h > 0 /\ h <= 32
    THEN << StageStep(1, "can_filter", <<id, mask, format>>),
            RequestStep(1, BitAnd(h, 63)),
            WaitStep(1) >>
    ELSE <<>>

\* for (i = first; i <= last; i++) { CMDMSK_W = ...; CMDREQ = i; while (busy); }
can_config_for_steps(first, last) ==
    [j \in 1..(3 * (last - first + 1)) |->
        CASE j % 3 = 1 -> StageStep(1, "can_config_for", <<>>)
          [] j % 3 = 2 -> RequestStep(1, BitAnd(first + (j \div 3), 63))
          [] OTHER -> WaitStep(1)]

can_config_rxmsgobj_steps ==
    << WaitStep(1), StageStep(1, "can_config_rxmsgobj", <<>>) >>
    \o can_config_for_steps(1, RX_MSG_OBJ_COUNT)
    \o can_filter_steps(1, 0, 0, "CANStandard")

can_config_txmsgobj_steps ==
    << WaitStep(1), StageStep(1, "can_config_txmsgobj", <<>>) >>
    \o can_config_for_steps(RX_MSG_OBJ_COUNT + 1, TX_MSG_OBJ_COUNT + RX_MSG_OBJ_COUNT)

\* can_write after the search for the transmit object
can_write_steps(msgnum, msg) ==
    IF msgnum = 0 THEN << ReturnStep(0) >>
    ELSE << WaitStep(1),
            StageStep(1, "can_write", <<msg>>),
            RequestStep(1, BitAnd(msgnum, 63)),
            WaitStep(1),
            OtherStep("clear", <<CANSTAT_TXOK>>),
            ReturnStep(1) >>

\* can_read after the search for the object with new data
can_read_steps(h) ==
    IF h > 0 /\ h <= 32
    THEN << WaitStep(2),
            StageStep(2, "can_read", <<>>),
            RequestStep(2, BitAnd(h, 63)),
            WaitStep(2),
            OtherStep("decode", <<>>),
            OtherStep("clear", <<CANSTAT_RXOK>>),
            ReturnStep(1) >>
    ELSE << ReturnStep(0) >>

\* can_init_freq up to the first call of can_config_rxmsgobj
can_init_freq_entry(c, hz) ==
    LET s1 == PeripheralReset(c)
        s2 == IF BitAnd(s1.reg.CANCNTL, 1) = 0
              THEN [s1 EXCEPT !.reg.CANCNTL = BitOr(@, 1)] ELSE s1
        fr == can_frequency(s2, hz)
    IN  [fr.c EXCEPT !.reg.CANCNTL = BitClear(@, 1)]

\* a call, from its entry to its first wait or register write: the state it
\* leaves, the steps it still has to take, and for can_write and can_filter
\* the object the call is to commit and the slot it is to commit it to
Entry(c, fn, a) ==
    CASE fn = "can_init" ->
            [c |-> can_init_freq_entry(c, 100000),
             todo |-> can_config_rxmsgobj_steps \o can_config_txmsgobj_steps
                      \o << ReturnStep(0) >>,
             slot |-> 0]
      [] fn = "can_reset" ->
            [c |-> WriteCANSTAT(c, 0),
             todo |-> can_config_rxmsgobj_steps \o can_config_txmsgobj_steps
                      \o << OtherStep("can_enable", <<>>), ReturnStep(0) >>,
             slot |-> 0]
      [] fn = "can_filter" ->
            LET h == IF a[4] = 0 THEN FirstFreeHandle(c, a[4]) ELSE a[4]
            IN  [c |-> c,
                 todo |-> can_filter_steps(h, a[1], a[2], a[3])
                          \o << ReturnStep(h) >>,
                 slot |-> IF h > 0 /\ h <= 32 THEN h ELSE 0]
      [] fn = "can_write" ->
            LET s0 == can_enable(c)
                msgnum == FirstTxFree(s0)
            IN  [c |-> s0, todo |-> can_write_steps(msgnum, a[1]), slot |-> msgnum]
      [] fn = "can_read" ->
            LET s0 == can_enable(c)
                h  == IF a[1] = 0 THEN FirstNewData(s0, a[1]) ELSE a[1]
            IN  [c |-> s0, todo |-> can_read_steps(h), slot |-> 0]

\* variant: the wait gives up although the busy bit is set
WaitOver_GivesUp(reg, n) == TRUE

\* while (LPC_C_CAN0->CANIFn_CMDREQ & CANIFn_CMDREQ_BUSY); is left
WaitOver(reg, n) == ~Busy(reg, n)

\* the effect of one step on the registers
StepEffect(c, s) ==
    CASE s.do = "stage" /\ s.a[1] = "can_filter" ->
            can_filter_stage(c, s.a[2], s.a[3], s.a[4])
      [] s.do = "stage" /\ s.a[1] = "can_write" -> can_write_stage(c, s.a[2])
      [] s.do = "stage" /\ s.a[1] = "can_read" -> can_read_stage(c)
      [] s.do = "stage" /\ s.a[1] = "can_config_rxmsgobj" ->
            [c EXCEPT !.reg.IF1.ARB1 = 0, !.reg.IF1.ARB2 = 0, !.reg.IF1.MCTRL = 0]
      [] s.do = "stage" /\ s.a[1] = "can_config_txmsgobj" ->
            [c EXCEPT !.reg.IF1.ARB1 = 0, !.reg.IF1.ARB2 = CANIFn_ARB2_DIR,
                      !.reg.IF1.MCTRL = 0]
      [] s.do = "stage" /\ s.a[1] = "can_config_for" ->
            [c EXCEPT !.reg.IF1.CMDMSK =
                BitOr(BitOr(CANIFn_CMDMSK_WR, CANIFn_CMDMSK_ARB), CANIFn_CMDMSK_CTRL)]
      [] s.do = "request" -> WriteCMDREQ(c, s.n, s.a[1])
      [] s.do = "clear" -> WriteCANSTAT(c, BitClear(c.reg.CANSTAT, s.a[1]))
      [] s.do = "can_enable" -> can_enable(c)
      [] OTHER -> c

\* variant: can_read in interrupt context going through interface 1
isr_can_read_Interface1(c, handle) ==
    LET s0 == can_enable(c)
        h  == IF handle = 0 THEN FirstNewData(s0, handle) ELSE handle
    IN  IF h > 0 /\ h <= 32
        THEN LET s1 == [s0 EXCEPT !.reg.IF1.CMDMSK = can_read_stage(s0).reg.IF2.CMDMSK]
                 s2 == CommandRequest(s1, 1, BitAnd(h, 63))
             IN  WriteCANSTAT(s2, BitClear(s2.reg.CANSTAT, 2^4))
        ELSE s0

\* can_read called from the interrupt handler: it runs to its end before the
\* interrupted call goes on
isr_can_read(c, handle) == can_read(c, CallerMessage, handle).c

\* bounds: interrupts taken inside one call, calls made after can_init
MaxIsr == 1
MaxCalls == 2

\* the calls made
HsFilters ==
    { <<1365, 2047, "CANStandard", 0>>, <<1365, 2047, "CANStandard", 2>>,
      <<305419896, 536870911, "CANExtended", 1>> }
HsMsgs ==
    { [id |-> 1365, format |-> "CANStandard", type |-> "CANData", len |-> 3,
       data |-> <<17, 34, 51, 68, 85, 102, 119, 136>>],
      [id |-> 305419896, format |-> "CANExtended", type |-> "CANRemote", len |-> 0,
       data |-> <<0, 0, 0, 0, 0, 0, 0, 0>>] }
HsReadHandles == {0, 1}
IsrHandles == {0, 1, 2, 32}

Idle == canObs.fg.todo = <<>>

\* the foreground calls fn(a)
FgCall(fn, a) ==
    LET e == Entry(Cn, fn, a)
        r == CASE fn = "can_write" -> can_write(Cn, a[1])
               [] fn = "can_filter" -> can_filter(Cn, a[1], a[2], a[3], a[4])
               [] OTHER -> [c |-> Cn]
    IN  /\ Idle
        /\ fn = "can_init" <=> ~canObs.inited
        /\ canObs.fg.calls < MaxCalls
        /\ CommitCan(e.c)
        /\ canObs' = [ObsStep("call", <<fn>> \o a) EXCEPT
                         !.fg = [fn |-> fn, todo |-> e.todo, isr |-> 0,
                                 calls |-> IF fn = "can_init" THEN 0
                                           ELSE canObs.fg.calls + 1,
                                 slot |-> e.slot,
                                 obj |-> IF e.slot \in 1..32 THEN r.c.ram[e.slot]
                                         ELSE ZeroObject]]
        /\ UNCHANGED <<rtcVars, obsVars, sp>>

\* the foreground takes the next step of its call
FgStep ==
    LET s == Head(canObs.fg.todo)
        c == StepEffect(Cn, s)
    IN  /\ ~Idle
        /\ s.do = "wait" => WaitOver(LPC_C_CAN0, s.n)
        /\ CommitCan(c)
        /\ canObs' = [canObs EXCEPT
                         !.op = IF s.do = "return" THEN canObs.fg.fn ELSE s.do,
                         !.arg = IF s.do = "return" THEN canObs.arg ELSE <<s.n>>,
                         !.ret = IF s.do = "return" THEN s.a[1] ELSE 0,
                         !.rxmsg = IF s.do = "decode"
                                   THEN can_read_decode(LPC_C_CAN0.IF2, CallerMessage)
                                   ELSE IF s.do = "return" THEN @ ELSE CallerMessage,
                         !.inited = @ \/ (s.do = "return" /\ canObs.fg.fn = "can_init"),
                         !.fg.todo = Tail(@)]
        /\ UNCHANGED <<rtcVars, obsVars, sp>>

\* the controller completes the transfer requested through interface n
HwComplete(n) ==
    LET c == TransferDone(Cn, n)
    IN  /\ Busy(LPC_C_CAN0, n)
        /\ CommitCan(c)
        /\ canObs' = [canObs EXCEPT !.op = "transfer", !.arg = <<n>>, !.ret = 0]
        /\ UNCHANGED <<rtcVars, obsVars, sp>>

\* the receive interrupt is taken inside can_write or can_filter and its
\* handler calls can_read
IsrRead(handle) ==
    LET c == isr_can_read(Cn, handle)
    IN  /\ ~Idle
        /\ canObs.fg.fn \in {"can_write", "can_filter"}
        /\ canObs.fg.isr < MaxIsr
        /\ CommitCan([c EXCEPT !.hs = <<>>])
        /\ canObs' = [canObs EXCEPT !.op = "isr", !.arg = <<handle>>, !.ret = 0,
                                    !.fg.isr = @ + 1]
        /\ UNCHANGED <<rtcVars, obsVars, sp>>

NextHs ==
    \/ FgCall("can_init", <<>>)
    \/ FgCall("can_reset", <<>>)
    \/ \E f \in HsFilters : FgCall("can_filter", f)
    \/ \E msg \in HsMsgs : FgCall("can_write", <<msg>>)
    \/ \E h \in HsReadHandles : FgCall("can_read", <<h>>)
    \/ FgStep
    \/ \E n \in {1, 2} : HwComplete(n)
    \/ \E h \in IsrHandles : IsrRead(h)
    \/ \E msg \in HsMsgs :
          Idle /\ canObs.receives < MaxFrames /\ HwReceive(msg)

SpecHs == Init /\ [][NextHs]_vars

\* the processor keeps executing the call and the controller completes every
\* transfer it is asked for
SpecHsFair ==
    SpecHs /\ WF_vars(FgStep) /\ WF_vars(HwComplete(1)) /\ WF_vars(HwComplete(2))

\* ---- the interrupt callback calling can_write or can_filter.  The handler
\* runs to its end before the interrupted call goes on; a transfer takes a
\* few clock cycles, so the handler is entered with none in flight.

\* can_write called from the interrupt handler
isr_can_write(c, msg) == can_write(c, msg).c

\* can_filter called from the interrupt handler
isr_can_filter(c, id, mask, format, handle) ==
    can_filter(c, id, mask, format, handle).c

\* the calls the handler makes
IsrMsgs ==
    { [id |-> 291, format |-> "CANStandard", type |-> "CANData", len |-> 2,
       data |-> <<202, 254, 0, 0, 0, 0, 0, 0>>] }
IsrFilters == { <<291, 2047, "CANStandard", 3>> }

\* an interrupt is taken inside can_write or can_filter and its handler
\* makes the call that takes the registers from Cn to c
IsrCall(fn, a, c) ==
    /\ ~Idle
    /\ canObs.fg.fn \in {"can_write", "can_filter"}
    /\ canObs.fg.isr < MaxIsr
    /\ ~Busy(LPC_C_CAN0, 1)
    /\ CommitCan([c EXCEPT !.hs = <<>>])
    /\ canObs' = [canObs EXCEPT !.op = "isr", !.arg = <<fn>> \o a, !.ret = 0,
                                !.fg.isr = @ + 1]
    /\ UNCHANGED <<rtcVars, obsVars, sp>>

IsrWrite(msg) == IsrCall("can_write", <<msg>>, isr_can_write(Cn, msg))

IsrFilter(f) ==
    IsrCall("can_filter", f, isr_can_filter(Cn, f[1], f[2], f[3], f[4]))

NextIsrWrite ==
    \/ FgCall("can_init", <<>>)
    \/ \E f \in HsFilters : FgCall("can_filter", f)
    \/ \E msg \in HsMsgs : FgCall("can_write", <<msg>>)
    \/ FgStep
    \/ HwComplete(1)
    \/ \E msg \in IsrMsgs : IsrWrite(msg)
    \/ \E f \in IsrFilters : IsrFilter(f)

SpecIsrWrite == Init /\ [][NextIsrWrite]_vars

----------------------------------------------------------------------------
(* RTC: properties                                                         *)

\* the value of the last write plus the seconds the hardware clock has
\* advanced since
WrittenPlusElapsed == Add64(obs.wr, W64(obs.since))

\* C1: rtc_write(t) followed immediately by rtc_read(), with no hardware
\* clock tick in between, returns exactly t -- for every t >= 0, also one
\* that does not fit in the 32-bit spare register, and from every state.
C1_WriteThenReadReturnsT ==
    (lastOp = "rtc_read" /\ obs.afterWrite.some) => ret = obs.afterWrite.val

\* C2: after rtc_write(t) and d seconds of hardware clock advance with no
\* further write, every successful rtc_read() returns t + d.
C2_ReadReturnsWrittenPlusElapsed ==
    (lastOp = "rtc_read" /\ obs.readOk) => ret = WrittenPlusElapsed

\* C3: after rtc_write(t) and a reset that clears the driver's variables
\* but keeps the RTC domain, the first rtc_read() (no rtc_init or rtc_write
\* after the reset) returns t plus the hardware seconds elapsed since the
\* write.
C3_FirstReadAfterResetRestores ==
    (lastOp = "rtc_read" /\ obs.firstAfterReset /\ obs.readOk)
        => ret = WrittenPlusElapsed

\* C4: rtc_init() on an active RTC changes neither t_write, the spare
\* register nor the date-time registers, and a second rtc_init() right after
\* a first changes nothing at all; rtc_init() on an inactive RTC powers the
\* clock and ends with t_write = 0, spare register = 0 and the date-time
\* registers at the reference date.
C4_InitIdempotentOrBaseline ==
    [][lastOp' = "rtc_init" =>
         IF RTC_INIT_ACTIVE
         THEN /\ t_write' = t_write
              /\ RTC_SPR0' = RTC_SPR0
              /\ hwrtc' = hwrtc
              /\ (lastOp = "rtc_init" => rtcVars' = rtcVars)
         ELSE /\ CLK_RTCCKEN' /\ RTC_INIT_ACTIVE'
              /\ t_write' = Zero64
              /\ RTC_SPR0' = Trunc32(Zero64)
              /\ hwrtc' = DATETIME_HWRTC_ORIGIN]_vars

\* C4 witness: rtc_init() has been called on an active RTC that holds a
\* written time.
C4_Witness ==
    /\ lastOp = "rtc_init" /\ obs.wasActive
    /\ t_write # Zero64 /\ RTC_SPR0 # Trunc32(Zero64) /\ obs.since > 0

C6_FailedReadReturnsZeroAndKeepsHardware ==
    [][lastOp' = "rtc_read" =>
         IF HwDateAccepted(hwrtc')
         THEN ret' = Add64(t_write', W64(obs'.since))
         ELSE /\ ret' = Zero64
              /\ RTC_SPR0' = RTC_SPR0
              /\ hwrtc' = hwrtc]_vars

\* C6 witness: a read succeeds after an earlier read failed, with a written
\* time and elapsed seconds.
C6_Witness ==
    /\ lastOp = "rtc_read" /\ obs.readOk /\ obs.failedRead
    /\ obs.since > 0 /\ t_write # Zero64 /\ ret # Zero64

\* C7: rtc_isenabled() leaves the clock gate enabled, returns nonzero exactly
\* when the active flag is set, and changes nothing else.
C7_IsEnabledGatesClockOnly ==
    [][lastOp' = "rtc_isenabled" =>
         /\ CLK_RTCCKEN'
         /\ (ret' # Zero64) = RTC_INIT_ACTIVE
         /\ UNCHANGED <<t_hwrtc_origin_inited, t_hwrtc_origin, t_write,
                        RTC_INIT_ACTIVE, RTC_SPRRWEN, RTC_SPR0, hwrtc>>]_vars

\* C7 witness: rtc_isenabled() right after rtc_free() finds the RTC active
\* and has switched the clock gate on again.
C7_Witness ==
    /\ lastOp = "rtc_isenabled" /\ obs.afterFree
    /\ CLK_RTCCKEN /\ ret = W64(1) /\ t_write # Zero64

----------------------------------------------------------------------------
(* CAN bit-timing solver: properties                                       *)

\* TSEG2 << 12 | TSEG1 << 8 | SJW << 6 | prescaler for quanta count q, the
\* fields as they are
RawWord(q, p, sjw) ==
    TimingPt(q, 1) * 2^12 + TimingPt(q, 0) * 2^8 + sjw * 2^6 + p

\* the same with SJW cut to its 2-bit and the prescaler to its 6-bit field
MaskedWord(q, p, sjw) == RawWord(q, p % 64, sjw % 4)

\* the first match of a search over the prescaler candidates lo..hi in
\* ascending order, the quanta count scanned from 22 down to 1 for each:
\* <<q, p>> of the first pair with (q + 3) * (p + 1) = bitwidth, or <<>>
\* when none matches
FirstMatch(lo, hi, bitwidth) ==
    LET Q(p) == {q \in 1..22 : (q + 3) * (p + 1) = bitwidth}
        M == {p \in lo..hi : Q(p) # {}}
    IN  IF M = {} THEN <<>>
        ELSE LET p == CHOOSE x \in M : \A y \in M : x <= y
                 q == CHOOSE x \in Q(p) : \A y \in Q(p) : x >= y
             IN  <<q, p>>

\* the 16-bit prescaler counter does not wrap for this call
NoWrap == sp.bitwidth \div 4 < 2^16

\* C9 as stated: the prescaler candidates start at bitwidth / 24 and stay
\* below bitwidth / 4; the first match gives
\* TSEG2 << 12 | TSEG1 << 8 | SJW << 6 | prescaler, no match gives 0.
C9_SearchFromBitwidthOver24 ==
    (sp.pc = "done" /\ NoWrap) =>
        LET m == FirstMatch(sp.bitwidth \div 24, sp.bitwidth \div 4 - 1,
                            sp.bitwidth)
        IN  sp.btr = IF m = <<>> THEN 0 ELSE RawWord(m[1], m[2], sp.psjw)

\* C9, amended: for every input whose bitwidth / 4 is below 2^16, can_speed
\* returns the result of the search in which the prescaler candidates run
\* in ascending order from bitwidth / 24 + 1 up to and including
\* bitwidth / 4 (the candidate bitwidth / 24 is never tried), the quanta
\* count being scanned from 22 down to 1 for each; the first pair with
\* (quantaCount + 3) * (prescaler + 1) = bitwidth gives
\* TSEG2 << 12 | TSEG1 << 8 | (SJW & 3) << 6 | (prescaler & 0x3F), with
\* (TSEG1, TSEG2) the table entry at index quantaCount, and the result is 0
\* when no pair matches.
C9_SearchFromNextPrescaler ==
    (sp.pc = "done" /\ NoWrap) =>
        LET m == FirstMatch(sp.bitwidth \div 24 + 1, sp.bitwidth \div 4,
                            sp.bitwidth)
        IN  sp.btr = IF m = <<>> THEN 0 ELSE MaskedWord(m[1], m[2], sp.psjw)

\* C9 witness: a call that returned the match of the candidate
\* bitwidth / 24 + 1 although bitwidth / 24, which it never tries, matches
\* as well (bitwidth 24: prescaler 2 with 5 quanta, not 1 with 9).
C9_Witness ==
    /\ sp.pc = "done" /\ sp.hit = 1 /\ sp.btr # 0
    /\ sp.brp = sp.bitwidth \div 24 + 1
    /\ \E q \in 1..22 : (q + 3) * (sp.bitwidth \div 24 + 1) = sp.bitwidth

\* the index of the table entry the TSEG fields of a word denote (the
\* entries are pairwise different), or -1 when they denote none
TableIndex(btr) ==
    LET tseg1 == (btr \div 2^8) % 16
        tseg2 == (btr \div 2^12) % 8
        K == {k \in 0..22 : TimingPt(k, 0) = tseg1 /\ TimingPt(k, 1) = tseg2}
    IN  IF K = {} THEN -1 ELSE CHOOSE k \in K : TRUE

----------------------------------------------------------------------------
(* CAN: properties                                                         *)

\* whether the solver finds a timing for the bit rate f at the core clock
SolverFinds(f) == can_speed_loop(can_speed_entry(SystemCoreClock, f, 1)).hit # 0

\* C11: can_frequency(f) returns 0 and leaves CANBT, CANCLKDIV, CANBRPE and
\* CANCNTL unchanged when the solver finds no match, so that initialisation
\* completes with the prior timing; when the solver finds a match it
\* returns 1 and writes the low 16 bits of the solver's result to CANBT.
\* The registers before and after are those at the call of can_frequency
\* and at its return, also for the call inside can_init_freq.
C11_FrequencyFollowsSolver ==
    canObs.freq.called =>
        LET q == canObs.freq
        IN  /\ IF SolverFinds(q.f)
               THEN /\ q.ret = 1
                    /\ q.after.CANBT = can_speed(SystemCoreClock, q.f, 1) % 2^16
               ELSE /\ q.ret = 0
                    /\ q.after.CANBT = q.before.CANBT
                    /\ q.after.CANCLKDIV = q.before.CANCLKDIV
                    /\ q.after.CANBRPE = q.before.CANBRPE
                    /\ q.after.CANCNTL = q.before.CANCNTL
            /\ canObs.op = "can_frequency" =>
                  canObs.ret = q.ret /\ LPC_C_CAN0 = q.after
            /\ (canObs.op = "can_init_freq" /\ ~SolverFinds(q.f)) =>
                  /\ LPC_C_CAN0.CANBT = q.before.CANBT
                  /\ LPC_C_CAN0.CANCLKDIV = q.before.CANCLKDIV
                  /\ LPC_C_CAN0.CANBRPE = q.before.CANBRPE
                  /\ BitAnd(LPC_C_CAN0.CANCNTL, CANCNTL_INIT) = 0
                  /\ Bit(msgram[1].ARB2, 15) = 1

\* C11 witness: can_frequency has returned 0 for a rate without a solution
\* on a controller whose timing an earlier call had set, and the timing is
\* that of the earlier call.
C11_Witness ==
    /\ canObs.op = "can_frequency" /\ canObs.ret = 0
    /\ ~SolverFinds(canObs.freq.f)
    /\ LPC_C_CAN0.CANBT = can_speed(SystemCoreClock, 500000, 1) % 2^16

\* message objects whose validity bit is clear in the message RAM ram
FreeObjects(ram) == {k \in 1..32 : Bit(ram[k].ARB2, 15) = 0}

\* C12: can_filter returns the handle it configured when the handle (given,
\* or chosen by the driver for handle 0) is in 1..32; it returns 0, without
\* a command request and without a change of the message RAM, when handle 0
\* is given and no object is free or when the given handle is outside 1..32
\* (negative handles and handles of 33 and above included).
C12_FilterReturnsHandleOrZero ==
    [][canObs'.op = "can_filter" =>
          LET given == canObs'.arg[4]
          IN  IF given \in 1..32
              THEN canObs'.ret = given /\ canObs'.hs = << <<1, given>> >>
              ELSE IF given = 0 /\ FreeObjects(msgram) # {}
              THEN canObs'.ret \in 1..32 /\ canObs'.hs = << <<1, canObs'.ret>> >>
              ELSE canObs'.ret = 0 /\ canObs'.hs = <<>> /\ msgram' = msgram]_vars

\* C13: can_filter with handle 0 configures the lowest-numbered object whose
\* validity bit is clear in the combined 32-bit validity bitmap, and that
\* object is one of the receive objects 1..31, never the transmit object 32.
C13_AutoFilterStaysInRxPool ==
    [][(canObs'.op = "can_filter" /\ canObs'.arg[4] = 0 /\ canObs'.hs # <<>>) =>
          LET k == canObs'.hs[1][2]
          IN  /\ k \in FreeObjects(msgram)
              /\ \A j \in FreeObjects(msgram) : k <= j
              /\ k \in 1..RX_MSG_OBJ_COUNT]_vars

\* C14: can_write uses message object 32 exactly when object 32 has no
\* pending transmit request: it then stages arbitration, mask, control and
\* data, issues one interface-1 command request to object 32, clears the
\* transmit-complete status flag and returns 1; when object 32 has a pending
\* request it returns 0 without staging an interface register, without a
\* command request and without a change of the message RAM.
C14_WriteUsesFreeTxSlot ==
    [][canObs'.op = "can_write" =>
          LET msg == canObs'.arg[1]
              if1 == LPC_C_CAN0'.IF1
              o   == msgram'[32]
          IN  IF Bit(msgram[32].MCTRL, 8) = 0
              THEN /\ canObs'.ret = 1
                   /\ canObs'.hs = << <<1, 32>> >>
                   /\ BitAnd(LPC_C_CAN0'.CANSTAT, CANSTAT_TXOK) = 0
                   /\ Bit(if1.ARB2, 15) = 1
                   /\ Bit(if1.ARB2, 14) = (IF msg.format = "CANExtended" THEN 1 ELSE 0)
                   /\ Bit(if1.MSK2, 14) = 1
                   /\ if1.MCTRL = CANIFn_MCTRL_UMASK + CANIFn_MCTRL_TXRQST
                                  + CANIFn_MCTRL_EOB + msg.len
                   /\ << if1.DA1 % 256, if1.DA1 \div 256, if1.DA2 % 256,
                         if1.DA2 \div 256, if1.DB1 % 256, if1.DB1 \div 256,
                         if1.DB2 % 256, if1.DB2 \div 256 >> = msg.data
                   /\ o = [ARB1 |-> if1.ARB1, ARB2 |-> if1.ARB2,
                           MSK1 |-> if1.MSK1, MSK2 |-> if1.MSK2,
                           MCTRL |-> if1.MCTRL,
                           DA1 |-> if1.DA1, DA2 |-> if1.DA2,
                           DB1 |-> if1.DB1, DB2 |-> if1.DB2]
                   /\ \A k \in 1..31 : msgram'[k] = msgram[k]
              ELSE /\ canObs'.ret = 0
                   /\ canObs'.hs = <<>>
                   /\ LPC_C_CAN0'.IF1 = LPC_C_CAN0.IF1
                   /\ msgram' = msgram]_vars

\* C14 witness: a second can_write has used object 32, after the request of
\* the first one was gone, and a can_write in between was refused.
C14_Witness ==
    /\ canObs.op = "can_write" /\ canObs.ret = 1 /\ canObs.writes = 2
    /\ canObs.hs = << <<1, 32>> >>
    /\ Bit(msgram[32].MCTRL, 8) = 1
    /\ BitAnd(LPC_C_CAN0.CANSTAT, CANSTAT_TXOK) = 0

\* receive objects 1..31 of the message RAM ram whose new-data bit is set
NewDataObjects(ram) == {k \in 1..RX_MSG_OBJ_COUNT : Bit(ram[k].MCTRL, 15) = 1}

\* C15: can_read with handle 0 reads the lowest-numbered object among the
\* receive objects 1..31 whose new-data bit is set, never object 32; it
\* returns 0 and leaves the caller's message and the receive-complete flag
\* untouched when no receive object has new data or when an explicit handle
\* is outside 1..32; a successful read returns 1 with the receive-complete
\* status flag cleared.
C15_ReadTakesLowestNewRx ==
    [][canObs'.op = "can_read" =>
          LET h   == canObs'.arg[1]
              new == NewDataObjects(msgram)
          IN  IF h = 0 /\ new # {}
              THEN /\ canObs'.ret = 1
                   /\ canObs'.hs = << <<2, Lowest(new)>> >>
                   /\ canObs'.hs[1][2] # 32
                   /\ BitAnd(LPC_C_CAN0'.CANSTAT, CANSTAT_RXOK) = 0
              ELSE IF h \in 1..32
              THEN /\ canObs'.ret = 1
                   /\ canObs'.hs = << <<2, h>> >>
                   /\ BitAnd(LPC_C_CAN0'.CANSTAT, CANSTAT_RXOK) = 0
              ELSE /\ canObs'.ret = 0
                   /\ canObs'.hs = <<>>
                   /\ canObs'.rxmsg = CallerMessage
                   /\ BitAnd(LPC_C_CAN0'.CANSTAT, CANSTAT_RXOK)
                        = BitAnd(LPC_C_CAN0.CANSTAT, CANSTAT_RXOK)]_vars

\* C15 witness: can_read with handle 0 has returned 0 while object 32, made
\* a receive filter by can_filter, holds new data and the receive-complete
\* flag is still set.
C15_Witness ==
    /\ canObs.op = "can_read" /\ canObs.arg = <<0>> /\ canObs.ret = 0
    /\ Bit(msgram[32].MCTRL, 15) = 1
    /\ BitAnd(LPC_C_CAN0.CANSTAT, CANSTAT_RXOK) # 0

\* the first n bytes of a payload
Payload(data, n) == SubSeq(data, 1, n)

\* C16: for every identifier (11-bit standard or 29-bit extended), format,
\* length 0..8 and payload, a frame given to can_write and stored by the
\* controller into a receive object whose filter (set by can_filter) matches
\* it is returned by can_read with the same identifier, format, length and
\* payload bytes.
C16_FrameRoundTrip ==
    (canObs.op = "can_read" /\ canObs.got.some) =>
        /\ canObs.ret = 1
        /\ canObs.rxmsg.id = canObs.got.msg.id
        /\ canObs.rxmsg.format = canObs.got.msg.format
        /\ canObs.rxmsg.len = canObs.got.msg.len
        /\ Payload(canObs.rxmsg.data, canObs.rxmsg.len)
             = Payload(canObs.got.msg.data, canObs.got.msg.len)

\* C16 witness: can_read has returned the extended frame with all 29
\* identifier bits set and 8 payload bytes, stored into object 2 through a
\* filter can_filter had set there.
C16_Witness ==
    /\ canObs.op = "can_read" /\ canObs.got.some /\ canObs.hs = << <<2, 2>> >>
    /\ canObs.got.msg.id = 536870911 /\ canObs.got.msg.format = "CANExtended"
    /\ canObs.got.msg.len = 8
    /\ canObs.rxmsg.id = 536870911 /\ canObs.rxmsg.data = canObs.got.msg.data

\* the frame of the peer's can_write(msg)
PeerFrame(msg) == FrameOf(PeerTxObject(msg), msg)

\* a valid receive object that accepts the frame of every message of msgs
AcceptsAll(o, msgs) ==
    /\ Bit(o.ARB2, 15) = 1
    /\ Bit(o.ARB2, 13) = 0
    /\ \A msg \in msgs : Accepts(o, PeerFrame(msg))

\* an empty object with direction TX: not valid, no pending request, zero
\* control field
EmptyTxObject(o) ==
    /\ Bit(o.ARB2, 15) = 0
    /\ Bit(o.MCTRL, 8) = 0
    /\ o.MCTRL = 0
    /\ Bit(o.ARB2, 13) = 1

\* the receive objects as the initialisation leaves them: object 1 a valid
\* receive object that accepts every standard-format frame, objects 2..31
\* not valid with zero arbitration and control fields
RxPoolDefault(ram) ==
    /\ AcceptsAll(ram[1], {m \in FrameInputs : m.format = "CANStandard"})
    /\ ram[1].MCTRL = CANIFn_MCTRL_UMASK + CANIFn_MCTRL_EOB + DLC_MAX
    /\ \A k \in 2..RX_MSG_OBJ_COUNT :
          /\ Bit(ram[k].ARB2, 15) = 0
          /\ ram[k].ARB1 = 0 /\ ram[k].ARB2 = 0 /\ ram[k].MCTRL = 0

InitCalls == {"can_init", "can_init_freq"}

DispatchOrder == <<"IRQ_BUS", "IRQ_PASSIVE", "IRQ_ERROR", "IRQ_RX", "IRQ_TX">>

StatusFlagOf(kind) ==
    CASE kind = "IRQ_BUS" -> CANSTAT_BOFF
      [] kind = "IRQ_PASSIVE" -> CANSTAT_EPASS
      [] kind = "IRQ_ERROR" -> CANSTAT_EWARN
      [] kind = "IRQ_RX" -> CANSTAT_RXOK
      [] kind = "IRQ_TX" -> CANSTAT_TXOK

EnableBitOf(kind) ==
    CASE kind = "IRQ_BUS" -> IRQ_ENABLE_BE
      [] kind = "IRQ_PASSIVE" -> IRQ_ENABLE_EP
      [] kind = "IRQ_ERROR" -> IRQ_ENABLE_EW
      [] kind = "IRQ_RX" -> IRQ_ENABLE_RX
      [] kind = "IRQ_TX" -> IRQ_ENABLE_TX

\* the calls of the handler for the kinds of DispatchOrder that Due selects
CallsFor(handler, id, Due(_)) ==
    LET kinds == SelectSeq(DispatchOrder, Due)
    IN  [j \in 1..Len(kinds) |-> <<handler, id, kinds[j]>>]

C20_DispatchClearsCompletionFlags ==
    [][(canObs'.op = "can_irq" /\ canObs'.arg[1] = 32768 /\ irq_handler # "NULL") =>
          LET before == LPC_C_CAN0.CANSTAT
              after  == LPC_C_CAN0'.CANSTAT
              errors == CANSTAT_BOFF + CANSTAT_EPASS + CANSTAT_EWARN
          IN  /\ before = canObs'.arg[2]
              /\ BitAnd(after, CANSTAT_RXOK) = 0
              /\ BitAnd(after, CANSTAT_TXOK) = 0
              /\ BitAnd(after, errors) = BitAnd(before, errors)
              /\ after = BitClear(before, CANSTAT_RXOK + CANSTAT_TXOK)]_vars

\* C20 witness: a status dispatch has found all five conditions asserted and
\* has left the three error flags set and the two completion flags clear.
C20_Witness ==
    /\ canObs.op = "can_irq"
    /\ canObs.arg = <<32768, CANSTAT_BOFF + CANSTAT_EPASS + CANSTAT_EWARN
                             + CANSTAT_RXOK + CANSTAT_TXOK>>
    /\ irq_handler # "NULL"
    /\ LPC_C_CAN0.CANSTAT = CANSTAT_BOFF + CANSTAT_EPASS + CANSTAT_EWARN

\* the interrupt line of the controller is off: the module interrupt enable
\* bit is clear and the line is disabled in the NVIC
LineOff ==
    /\ BitAnd(LPC_C_CAN0.CANCNTL, CANCNTL_IE) = 0
    /\ ~NVIC.enabled

\* C21: from can_irq_free until the next can_irq_init, whatever calls of
\* can_irq_set are made, the registered handler and the registered id are
\* cleared and the interrupt line is off.
C21_FreeClearsAndStaysOff ==
    canObs.freed => irq_handler = "NULL" /\ can_irq_id = 0 /\ LineOff

\* the enable bits of the control register that follow from the kinds
\* enabled
LineBitsFollowKinds ==
    /\ BitAnd(LPC_C_CAN0.CANCNTL, CANCNTL_IE) # 0
          <=> BitAnd(enabled_irqs, IRQ_ENABLE_TX + IRQ_ENABLE_RX + IRQ_ENABLE_EW
                                   + IRQ_ENABLE_EP + IRQ_ENABLE_BE) # 0
    /\ BitAnd(LPC_C_CAN0.CANCNTL, CANCNTL_SIE) # 0
          <=> BitAnd(enabled_irqs, IRQ_ENABLE_TX + IRQ_ENABLE_RX) # 0
    /\ BitAnd(LPC_C_CAN0.CANCNTL, CANCNTL_EIE) # 0
          <=> BitAnd(enabled_irqs, IRQ_ENABLE_EW + IRQ_ENABLE_EP
                                   + IRQ_ENABLE_BE) # 0

\* C22: after every can_irq_set with one of the five kinds the module
\* interrupt enable bit is set iff some kind is enabled, the status-change
\* enable bit iff RX or TX is enabled, and the error enable bit iff Bus-off,
\* Error-passive or Error-warning is enabled; a can_irq_set with another kind
\* changes neither the enabled set nor any register.
C22_EnableBitsFollowKinds ==
    [][canObs'.op = "can_irq_set" =>
          IF canObs'.arg[1] \in {"IRQ_RX", "IRQ_TX", "IRQ_BUS", "IRQ_PASSIVE",
                                 "IRQ_ERROR"}
          THEN LineBitsFollowKinds'
          ELSE UNCHANGED <<enabled_irqs, LPC_C_CAN0, msgram, NVIC>>]_vars

\* C22 witness: with Transmit-complete and Bus-off enabled, Bus-off has been
\* disabled: only the module and the status-change enable bits are left set.
C22_Witness ==
    /\ canObs.op = "can_irq_set"
    /\ canObs.arg = <<"IRQ_BUS", 0>>
    /\ enabled_irqs = IRQ_ENABLE_TX
    /\ BitAnd(LPC_C_CAN0.CANCNTL, CANCNTL_IE + CANCNTL_SIE + CANCNTL_EIE)
          = CANCNTL_IE + CANCNTL_SIE

\* C28: a status interrupt never produces a callback of a kind (RX, TX,
\* Bus-off, Error-passive, Error-warning) that is disabled: every callback of
\* a dispatch is of a kind enabled through can_irq_set.
C28_CallbacksOnlyForEnabledKinds ==
    canObs.op \in {"can_irq", "HardFault"} =>
        \A i \in 1..Len(canObs.calls) :
            BitAnd(enabled_irqs, EnableBitOf(canObs.calls[i][3])) # 0

\* C29: the dispatcher never calls through an unset handler: the vector is
\* installed and enabled only while a handler is registered, and no callback
\* is made with irq_handler unset.
C29_NoDispatchWithoutHandler ==
    /\ (NVIC.enabled /\ NVIC.vector = "can_irq") => irq_handler # "NULL"
    /\ \A i \in 1..Len(canObs.calls) : canObs.calls[i][1] # "NULL"

\* the mode the controller is in: stopped or running, and the test functions
\* in force (the test register acts only while the test-mode enable bit is
\* set)
EffectiveMode(reg) ==
    LET test == BitAnd(reg.CANCNTL, CANCNTL_TEST) # 0
    IN  [init   |-> BitAnd(reg.CANCNTL, CANCNTL_INIT) # 0,
         test   |-> test,
         silent |-> test /\ BitAnd(reg.CANTEST, CANTEST_SILENT) # 0,
         lback  |-> test /\ BitAnd(reg.CANTEST, CANTEST_LBACK) # 0]

\* the mode a CanMode value asks for
RequestedMode(mode) ==
    CASE mode = "MODE_RESET" ->
            [init |-> TRUE, test |-> FALSE, silent |-> FALSE, lback |-> FALSE]
      [] mode = "MODE_NORMAL" ->
            [init |-> FALSE, test |-> FALSE, silent |-> FALSE, lback |-> FALSE]
      [] mode = "MODE_SILENT" ->
            [init |-> FALSE, test |-> TRUE, silent |-> TRUE, lback |-> FALSE]
      [] mode = "MODE_TEST_LOCAL" ->
            [init |-> FALSE, test |-> TRUE, silent |-> FALSE, lback |-> TRUE]
      [] mode = "MODE_TEST_SILENT" ->
            [init |-> FALSE, test |-> TRUE, silent |-> TRUE, lback |-> TRUE]

\* C26: can_mode returns 1 for Reset, Normal, Silent, Loopback and
\* Loopback-Silent and 0, with no register changed, for any other mode; after
\* a successful call the controller's effective mode (initialization bit,
\* test-mode enable, silent bit, loopback bit) is the one requested, whatever
\* calls of can_mode preceded it.
C26_ModeIsTheOneRequested ==
    [][canObs'.op = "can_mode" =>
          LET mode == canObs'.arg[1]
          IN  IF mode \in {"MODE_RESET", "MODE_NORMAL", "MODE_SILENT",
                           "MODE_TEST_LOCAL", "MODE_TEST_SILENT"}
              THEN /\ canObs'.ret = 1
                   /\ EffectiveMode(LPC_C_CAN0') = RequestedMode(mode)
              ELSE /\ canObs'.ret = 0
                   /\ UNCHANGED <<LPC_C_CAN0, msgram>>]_vars

\* C27: the data length of a message is always in 0..8: the length can_write
\* stages into the control field and the length can_read returns never
\* exceed 8, for every 4-bit length code the caller or the bus supplies.
C27_LengthAtMostEight ==
    /\ (canObs.op = "can_write" /\ canObs.ret = 1)
          => BitAnd(LPC_C_CAN0.IF1.MCTRL, 15) <= DLC_MAX
    /\ (canObs.op = "can_read" /\ canObs.ret = 1)
          => canObs.rxmsg.len <= DLC_MAX

\* C30: can_speed terminates for every core clock and every bit rate of at
\* least 1, also for bit rates so low that bitwidth / 4 exceeds the 16-bit
\* range of the prescaler counter: the loop is left and the timing word
\* returned.
C30_SpeedTerminates == <>(sp.pc = "done")

\* C23: a handshake operation (can_filter, can_write, can_read and the pool
\* initialisers inside can_init and can_reset) returns when the controller
\* clears the busy bit after each command request, and never gets past a
\* wait while the busy bit of the interface it waits for is set: there is no
\* timeout.
C23_ReturnsWhenBusyClears ==
    /\ (~Idle) ~> Idle
    /\ [][canObs'.op = "wait" => ~Busy(LPC_C_CAN0, canObs'.arg[1])]_vars

\* C23 witness: can_read has made its command request and waits, with the
\* busy bit of interface 2 set.
C23_Witness ==
    /\ ~Idle
    /\ canObs.fg.fn = "can_read"
    /\ Head(canObs.fg.todo).do = "wait"
    /\ Busy(LPC_C_CAN0, 2)

\* C24: can_read uses only the registers of interface 2 and can_filter,
\* can_write and the pool initialisers only those of interface 1, so a
\* can_read run in interrupt context at any point inside can_write or
\* can_filter changes neither the fields the call commits to the message RAM
\* nor the slot it commits them to: at its return the object is the one the
\* uninterrupted call commits.
C24_InterruptReadLeavesCommit ==
    /\ [](canObs.op \in {"can_write", "can_filter"} /\ canObs.fg.fn = canObs.op
             /\ canObs.fg.slot \in 1..32
          => /\ msgram[canObs.fg.slot] = canObs.fg.obj
             /\ canObs.ret = IF canObs.op = "can_filter" THEN canObs.fg.slot ELSE 1)
    /\ [][/\ canObs'.op = "isr" => LPC_C_CAN0'.IF1 = LPC_C_CAN0.IF1
          /\ (canObs'.op \in {"stage", "request"} /\ canObs.fg.fn # "can_read")
                => canObs'.arg[1] = 1 /\ LPC_C_CAN0'.IF2 = LPC_C_CAN0.IF2]_vars

\* C24 witness: can_write has returned after can_read ran in interrupt
\* context inside it.
C24_Witness ==
    /\ canObs.op = "can_write" /\ canObs.ret = 1
    /\ canObs.fg.fn = "can_write" /\ canObs.fg.isr = 1
    /\ canObs.fg.slot = 32

\* C25: in every sequence of foreground calls of can_init, can_filter,
\* can_write, can_read and can_reset at most one handshake is in flight per
\* interface: no step writes the staging registers or the command-request
\* register of an interface while its busy bit is set.
C25_OneHandshakePerInterface ==
    [][canObs'.op \in {"stage", "request"}
          => ~Busy(LPC_C_CAN0, canObs'.arg[1])]_vars

\* C25 witness: the second call after can_init has made its command request.
C25_Witness ==
    /\ canObs.op = "request"
    /\ canObs.fg.calls = 2
    /\ Busy(LPC_C_CAN0, 1)

\* the fields of a timing word as the controller reads them (CANBT)
WordBRP(btr) == btr % 64
WordTSEG1(btr) == (btr \div 2^8) % 16
WordTSEG2(btr) == (btr \div 2^12) % 8

\* C31: whenever can_speed reports a match, the prescaler field of the
\* timing word equals the matched prescaler (it fits the 6-bit field), and
\* the word decodes back to the exact bit width:
\* (TSEG1 + TSEG2 + 3) * (BRP field + 1) = coreClock / bitrate.
C31_WordDecodesToBitWidth ==
    (sp.pc = "done" /\ sp.hit # 0) =>
        /\ WordBRP(sp.btr) = sp.brp
        /\ (WordTSEG1(sp.btr) + WordTSEG2(sp.btr) + 3) * (WordBRP(sp.btr) + 1)
              = sp.bitwidth

\* the hour of the day, 0..23, that a hardware date-time stands for: in
\* 12-hour mode 12 AM is hour 0 and 12 PM is hour 12
Hour24(dt) ==
    IF dt.u32TimeScale = RTC_CLOCK_12
    THEN (dt.u32Hour % 12) + (IF dt.u32AmPm = RTC_PM THEN 12 ELSE 0)
    ELSE dt.u32Hour

\* C33: the hardware-to-calendar conversion yields an hour in 0..23 equal to
\* the 24-hour equivalent of the hardware hour, for every hour 0..23 of
\* 24-hour mode and every hour 1..12 with AM or PM of 12-hour mode, 12 AM
\* and 12 PM included.
C33_HourIsTwentyFourHourEquivalent ==
    lastOp = "rtc_read" =>
        /\ obs.tm.tm_hour \in 0..23
        /\ obs.tm.tm_hour = Hour24(hwrtc)

C32_CommitsWhatItStaged ==
    [][(/\ canObs'.op = "transfer"
        /\ canObs.fg.fn \in {"can_write", "can_filter"}
        /\ canObs.fg.slot \in 1..32)
          => msgram'[canObs.fg.slot] = canObs.fg.obj]_vars

====
